---- MODULE Spec2Model ----
(***************************************************************************)
(* A model of the chronlang engine: the compiler driver                    *)
(* (lib/compiler.ts), the module and its snapshot builder (src/module.ts), *)
(* the sound-change engine and the transcription matcher                   *)
(* (src/sound-change.ts), words (src/word.ts) and the diachronic helpers   *)
(* (src/diachronics.ts).                                                   *)
(*                                                                         *)
(* JavaScript arrays are 0-based and TLA+ sequences 1-based: an index i of *)
(* the code is position i+1 of the sequence that models the array.         *)
(***************************************************************************)
EXTENDS Integers, Sequences, FiniteSets, TLC

VARIABLES
  heap,      \* the heap of the engine: [arrays, words, warnings] (see "The heap")
  mWords,    \* module.words: the addresses of its Word objects, in insertion order
  mChanges,  \* module.soundChanges
  out,       \* what the last operation returned
  module,    \* the Module being compiled: [languages, milestones, traits, classes,
             \* series, words, soundChanges, warnings, errors] (Maps are sequences
             \* in insertion order)
  ctx,       \* the driver's Context: [tagIndex, tagLanguage, tagStart, tagEnd,
             \* phonemeIndex], and stmt, the number of statements compiled
  thrown     \* the exception that ended compileModule, or Null

vars == <<heap, mWords, mChanges, out, module, ctx, thrown>>

engineVars == <<heap, mWords, mChanges>>

driverVars == <<module, ctx, thrown>>

\* ------------------------------------------------------------------------
\* Bounds of the model
\* ------------------------------------------------------------------------

\* longest word (phoneme list) handed to Word.apply in SpecApply
MaxLen == 4

\* most sound changes of a module in SpecSnap
MaxChanges == 2

\* most statements of a source text in SpecPhon
MaxStmts == 3

\* most statements after the inventory in Spec
MaxSource == 4

\* most phonemes of the inventory in SpecMatch
MaxInventory == 3

\* most phonemes of the rendered sequence in SpecMatch
MaxSeq == 2

\* longest pronunciation matched as written in SpecMatch
MaxText == 3

\* ------------------------------------------------------------------------
\* Values shared by all parts
\* ------------------------------------------------------------------------

\* null / undefined
Null == "null"

\* tagStart / tagEnd of a Context before a milestone sets them (null); every
\* time of the model is positive
NullTime == -1

\* the number Infinity (compileMilestone gives an instant milestone this end);
\* every finite time of the model is smaller
Infinity == 99

\* F at the value of v: v is evaluated once, however often F uses it
Bind(v, F(_)) == CHOOSE r \in {F(x) : x \in {v}} : TRUE

Min(a, b) == IF a < b THEN a ELSE b

Max(a, b) == IF a < b THEN b ELSE a

SeqsUpTo(S, n) == UNION {[1..m -> S] : m \in 0..n}

\* Array.prototype.includes
InSeq(x, s) == \E i \in 1..Len(s) : s[i] = x

\* Array.prototype.slice(start, end) for 0 <= start <= end
slice(arr, start, end) == SubSeq(arr, Min(start, Len(arr)) + 1, Min(end, Len(arr)))

\* Array.prototype.splice(start, deleteCount, ...items): the array afterwards.
\* A negative start counts from the end, a start past the end is the end, and
\* deleteCount is clamped to what is left.
splice(arr, start, deleteCount, items) ==
  LET len == Len(arr)
      from == IF start < 0 THEN Max(len + start, 0) ELSE Min(start, len)
      del == Min(Max(deleteCount, 0), len - from)
  IN SubSeq(arr, 1, from) \o items \o SubSeq(arr, from + del + 1, len)

\* Array.prototype.toSorted(cmp).  The engine sorts an array of fewer than 64
\* elements by binary insertion: each element in turn is the pivot, compared
\* as cmp(pivot, element) with elements of the sorted prefix.
toSorted(arr, cmp(_, _)) ==
  LET RECURSIVE insertionPoint(_, _, _, _)
      insertionPoint(sorted, pivot, left, right) ==
        IF left >= right THEN left
        ELSE LET mid == left + ((right - left) \div 2)
             IN IF cmp(pivot, sorted[mid + 1]) < 0
                  THEN insertionPoint(sorted, pivot, left, mid)
                  ELSE insertionPoint(sorted, pivot, mid + 1, right)
      RECURSIVE insertAll(_)
      insertAll(prefix) ==
        IF Len(prefix) <= 1 THEN prefix
        ELSE Bind(insertAll(SubSeq(prefix, 1, Len(prefix) - 1)), LAMBDA sorted :
               Bind(insertionPoint(sorted, prefix[Len(prefix)], 0, Len(sorted)), LAMBDA at :
                 SubSeq(sorted, 1, at) \o <<prefix[Len(prefix)]>>
                   \o SubSeq(sorted, at + 1, Len(sorted))))
  IN Bind(arr, insertAll)

\* the environment and the source of a rule, in a statement and compiled
NoEnvironment ==
  [kind |-> "null", before |-> <<>>, after |-> <<>>, anchorStart |-> FALSE, anchorEnd |-> FALSE]

Env(before, after, anchorStart, anchorEnd) ==
  [kind |-> "environment", before |-> before, after |-> after,
   anchorStart |-> anchorStart, anchorEnd |-> anchorEnd]

EmptySource == [kind |-> "empty", segments |-> <<>>]

Pattern(segments) == [kind |-> "pattern", segments |-> segments]

\* ------------------------------------------------------------------------
\* The compiler driver (lib/compiler.ts) and the Module (src/module.ts).
\* A handler is an operator from the driver state S = [module, ctx, thrown] and
\* a statement of the parser to the driver state afterwards.  Names (trait and
\* class names, feature labels, glyphs, language ids, glosses) are strings; a
\* span is [stmt, part, i, j]: the statement's number, the part of it and the
\* position of the element in that part.
\* ------------------------------------------------------------------------

\* new Module(), new Context()
NewState ==
  [ module |-> [languages |-> <<>>, milestones |-> <<>>, traits |-> <<>>, classes |-> <<>>,
                series |-> <<>>, words |-> <<>>, soundChanges |-> <<>>, warnings |-> <<>>,
                errors |-> <<>>],
    ctx |-> [tagIndex |-> 0, tagLanguage |-> Null, tagStart |-> NullTime, tagEnd |-> NullTime,
             phonemeIndex |-> 0, stmt |-> 0],
    thrown |-> Null ]

\* the engine's variables while a driver specification runs
EngineIdle ==
  /\ heap = [arrays |-> <<>>, words |-> <<>>, warnings |-> <<>>]
  /\ mWords = <<>>
  /\ mChanges = <<>>

\* the driver's variables while an engine specification runs
DriverIdle ==
  /\ module = NewState.module
  /\ ctx = NewState.ctx
  /\ thrown = Null

Span(S, part, i, j) == [stmt |-> S.ctx.stmt, part |-> part, i |-> i, j |-> j]

\* module.errors.push({ message, span })
pushError(S, message, span) ==
  [S EXCEPT !.module.errors = Append(@, [message |-> message, span |-> span])]

\* an exception leaves the handler: compileModule does not catch it
throw(S, exception) == [S EXCEPT !.thrown = exception]

\* Map.get(name) on a Map kept as a sequence of records with this key field:
\* the position of the entry, 0 when there is none
indexOf(map, key, name) ==
  IF \E i \in 1..Len(map) : map[i][key] = name
    THEN CHOOSE i \in 1..Len(map) : map[i][key] = name
    ELSE 0

\* a feature is named by its trait and its position in trait.features
NoFeatureRef == [trait |-> Null, feature |-> 0]

\* Module.getFeatures().get(label), NoFeatureRef when undefined.  The Map is
\* built from [label, feature] entries in trait, feature, label order, and a
\* later entry replaces an earlier one with the same key.
getFeatures(m, label) ==
  LET hits == UNION {{<<t, f>> : f \in {g \in 1..Len(m.traits[t].features) :
                                          InSeq(label, m.traits[t].features[g].labels)}} :
                     t \in 1..Len(m.traits)}
  IN IF hits = {} THEN NoFeatureRef
     ELSE LET last == CHOOSE h \in hits :
                        \A g \in hits : g[1] < h[1] \/ (g[1] = h[1] /\ g[2] <= h[2])
          IN [trait |-> m.traits[last[1]].name, feature |-> last[2]]

\* the loop of compileTrait over one member's labels: an error for every label
\* that existingFeatures holds
RECURSIVE checkLabels(_, _, _, _, _)
checkLabels(S, existing, labels, member, l) ==
  IF l > Len(labels) THEN S
  ELSE Bind(IF getFeatures(existing, labels[l]) # NoFeatureRef
              THEN pushError(S, "A feature with this name is already defined",
                             Span(S, "label", member, l))
              ELSE S,
            LAMBDA S1 : checkLabels(S1, existing, labels, member, l + 1))

\* the loop of compileTrait over stmt.members, from member i on: the driver
\* state and the trait under construction, [S, trait, hasDefault]
RECURSIVE traitMembers(_, _, _, _)
traitMembers(acc, existing, members, i) ==
  IF i > Len(members) THEN acc
  ELSE Bind(checkLabels(acc.S, existing, members[i].labels, i, 1), LAMBDA S1 :
         Bind([acc.trait EXCEPT !.features = Append(@, [labels |-> members[i].labels])],
              LAMBDA trait1 :
           Bind(IF members[i].default
                  THEN IF acc.hasDefault
                         THEN [S |-> pushError(S1, "A trait cannot have more than one default member.",
                                               Span(S1, "label", acc.trait.default, 1)),
                               trait |-> trait1, hasDefault |-> TRUE]
                         ELSE [S |-> S1,
                               trait |-> [trait1 EXCEPT !.default = Len(trait1.features)],
                               hasDefault |-> TRUE]
                  ELSE [S |-> S1, trait |-> trait1, hasDefault |-> acc.hasDefault],
                LAMBDA next : traitMembers(next, existing, members, i + 1))))

\* a trait: [name, features: <<[labels]...>>, default: the position of the
\* default feature, 0 for undefined]
compileTrait(S, stmt) ==
  IF indexOf(S.module.traits, "name", stmt.label) # 0
    THEN pushError(S, "A trait with this name is already defined", Span(S, "name", 0, 0))
    ELSE Bind(traitMembers([S |-> S, trait |-> [name |-> stmt.label, features |-> <<>>,
                                                 default |-> 0],
                            hasDefault |-> FALSE],
                           S.module, stmt.members, 1),
              LAMBDA r :
                LET trait == IF ~r.hasDefault
                               THEN [r.trait EXCEPT !.default =
                                       IF Len(r.trait.features) > 0 THEN 1 ELSE 0]
                               ELSE r.trait
                IN [r.S EXCEPT !.module.traits = Append(@, trait)])

\* a phoneme: [glyph, features: trait name -> position of the feature in the
\* trait, class: the name of its class, index]
NoPhoneme == [glyph |-> Null, features |-> <<>>, class |-> Null, index |-> 0]

\* [...module.classes.values()].flatMap(clazz => clazz.phonemes), from class i on
RECURSIVE classPhonemes(_, _)
classPhonemes(classes, i) ==
  IF i > Len(classes) THEN <<>> ELSE classes[i].phonemes \o classPhonemes(classes, i + 1)

\* Module.getPhonemes().get(glyph), NoPhoneme when undefined: of the phonemes
\* with this glyph the Map keeps the last
getPhonemes(m, glyph) ==
  Bind(classPhonemes(m.classes, 1), LAMBDA all :
    LET hits == {i \in 1..Len(all) : all[i].glyph = glyph}
    IN IF hits = {} THEN NoPhoneme ELSE all[CHOOSE i \in hits : \A h \in hits : h <= i])

\* Module.getSoundEntity(name): the kind of what it returns
getSoundEntity(m, name) ==
  IF indexOf(m.classes, "name", name) # 0 THEN "class"
  ELSE IF indexOf(m.series, "name", name) # 0 THEN "series"
  ELSE IF getPhonemes(m, name).glyph # Null THEN "phoneme"
  ELSE "undefined"

\* the characters of a string: a name is a single character, but for the
\* glyph "ts"
Chars(name) == IF name = "ts" THEN <<"t", "s">> ELSE <<name>>

\* the comparator of Module.listPhonemes
byLengthThenIndex(a, b) ==
  IF Len(Chars(a.glyph)) < Len(Chars(b.glyph)) THEN 1
  ELSE IF Len(Chars(b.glyph)) < Len(Chars(a.glyph)) THEN -1
  ELSE IF a.index < b.index THEN -1
  ELSE IF b.index < a.index THEN 1
  ELSE 0

\* the loop of compileClass over stmt.encodes: [S, clazz, ok]
RECURSIVE classEncodes(_, _, _)
classEncodes(acc, encodes, i) ==
  IF i > Len(encodes) THEN acc
  ELSE IF indexOf(acc.S.module.traits, "name", encodes[i]) = 0
    THEN [acc EXCEPT !.S = pushError(@, "No trait exists with this name",
                                     Span(acc.S, "encodes", i, 0)),
                     !.ok = FALSE]
    ELSE Bind([acc EXCEPT !.clazz.encodes = Append(@, encodes[i])],
              LAMBDA next : classEncodes(next, encodes, i + 1))

\* trait.features.find(f => f.labels.map(l => l[0]).includes(featName)): the
\* position of the feature, 0 when undefined
findFeature(trait, featName) ==
  LET hits == {f \in 1..Len(trait.features) : InSeq(featName, trait.features[f].labels)}
  IN IF hits = {} THEN 0 ELSE CHOOSE f \in hits : \A h \in hits : f <= h

\* the loop over phonemeDef.traits, from position i (1-based) on: [S, features]
RECURSIVE phonemeFeatures(_, _, _, _, _)
phonemeFeatures(acc, encodes, traits, ph, i) ==
  IF i > Len(traits) THEN acc
  ELSE IF i > Len(encodes)
    \* trait is undefined: reading trait.features throws a TypeError
    THEN [acc EXCEPT !.S = throw(@, "TypeError")]
    ELSE LET trait == acc.S.module.traits[indexOf(acc.S.module.traits, "name", encodes[i])]
         IN Bind(findFeature(trait, traits[i]), LAMBDA feat :
              Bind(IF feat = 0
                     THEN [acc EXCEPT !.S = pushError(@, "Trait has no member with this name",
                                                      Span(acc.S, "feature", ph, i))]
                     ELSE [acc EXCEPT !.features = (encodes[i] :> feat) @@ @],
                   LAMBDA next : phonemeFeatures(next, encodes, traits, ph, i + 1)))

\* a variant that does not compare the number of features with clazz.encodes
classMemberNoArityCheck(acc, phonemeDef, i) ==
  Bind([acc.S EXCEPT !.ctx.phonemeIndex = @ + 1], LAMBDA S1 :
    Bind(phonemeFeatures([S |-> S1, features |-> <<>>], acc.clazz.encodes,
                         phonemeDef.traits, i, 1),
         LAMBDA r :
      IF r.S.thrown # Null THEN [acc EXCEPT !.S = r.S]
      ELSE [acc EXCEPT !.S = r.S,
                       !.clazz.phonemes =
                          Append(@, [glyph |-> phonemeDef.label, features |-> r.features,
                                     class |-> acc.clazz.name,
                                     index |-> acc.S.ctx.phonemeIndex])]))

\* one pass of the loop of compileClass over stmt.phonemes, for a phoneme whose
\* glyph is free: [S, clazz, ok] afterwards
classMember(acc, phonemeDef, i) ==
  Bind([acc.S EXCEPT !.ctx.phonemeIndex = @ + 1], LAMBDA S1 :
    \* the span of the arity error reads phonemeDef.traits[0][1]: a TypeError
    \* when the phoneme lists no feature at all
    Bind(IF Len(phonemeDef.traits) = Len(acc.clazz.encodes) THEN S1
         ELSE IF Len(phonemeDef.traits) = 0 THEN throw(S1, "TypeError")
         ELSE pushError(S1, "Phonemes in this class must have as many features as it encodes",
                        Span(S1, "feature", i, 1)),
         LAMBDA S2 :
      Bind(IF S2.thrown # Null THEN [S |-> S2, features |-> <<>>]
           ELSE phonemeFeatures([S |-> S2, features |-> <<>>], acc.clazz.encodes,
                                phonemeDef.traits, i, 1),
           LAMBDA r :
        IF r.S.thrown # Null THEN [acc EXCEPT !.S = r.S]
        ELSE [acc EXCEPT !.S = r.S,
                         !.clazz.phonemes =
                            Append(@, [glyph |-> phonemeDef.label, features |-> r.features,
                                       class |-> acc.clazz.name,
                                       index |-> acc.S.ctx.phonemeIndex])])))

\* the loop of compileClass over stmt.phonemes, from phoneme i on: [S, clazz, ok]
RECURSIVE classMembers(_, _, _)
classMembers(acc, phonemes, i) ==
  IF i > Len(phonemes) \/ acc.S.thrown # Null THEN acc
  ELSE Bind(IF getSoundEntity(acc.S.module, phonemes[i].label) # "undefined"
              THEN [acc EXCEPT !.S = pushError(@, "A class, series or phoneme with this name is already defined",
                                               Span(acc.S, "phoneme", i, 0))]
              ELSE classMember(acc, phonemes[i], i),
            LAMBDA next : classMembers(next, phonemes, i + 1))

\* a class: [name, encodes: trait names, phonemes]
compileClass(S, stmt) ==
  IF getSoundEntity(S.module, stmt.label) # "undefined"
    THEN pushError(S, "A class, series or phoneme with this name is already defined",
                   Span(S, "name", 0, 0))
    ELSE Bind(classEncodes([S |-> S,
                            clazz |-> [name |-> stmt.label, encodes |-> <<>>, phonemes |-> <<>>],
                            ok |-> TRUE],
                           stmt.encodes, 1),
              LAMBDA e :
                IF ~e.ok THEN e.S
                ELSE Bind(classMembers(e, stmt.phonemes, 1), LAMBDA r :
                       IF r.S.thrown # Null THEN r.S
                       ELSE [r.S EXCEPT !.module.classes = Append(@, r.clazz)]))

\* the loop of compileCategory over data.features, from modifier i on:
\* [S, modifiers]; a modifier is [feature: [trait, feature], name, sign]
RECURSIVE categoryModifiers(_, _, _, _)
categoryModifiers(acc, baseClass, features, i) ==
  IF i > Len(features) THEN acc
  ELSE Bind(getFeatures(acc.S.module, features[i].name), LAMBDA feature :
         Bind(indexOf(acc.S.module.classes, "name", baseClass), LAMBDA classAt :
           Bind(IF feature = NoFeatureRef
                  THEN [acc EXCEPT !.S = pushError(@, "No feature exists with this name",
                                                   Span(acc.S, "modifier", i, 0))]
                ELSE IF baseClass # Null /\ classAt # 0
                        /\ ~InSeq(feature.trait, acc.S.module.classes[classAt].encodes)
                  THEN [acc EXCEPT !.S = pushError(@, "The base class does not encode the trait of this feature",
                                                   Span(acc.S, "modifier", i, 0))]
                ELSE [acc EXCEPT !.modifiers = Append(@, [feature |-> feature,
                                                          name |-> features[i].name,
                                                          sign |-> features[i].sign])],
                LAMBDA next : categoryModifiers(next, baseClass, features, i + 1))))

\* compileCategory(module, data): [S, ok, baseClass, modifiers]
compileCategory(S, data) ==
  IF /\ data.baseClass # Null
     /\ indexOf(S.module.classes, "name", data.baseClass) = 0
     /\ indexOf(S.module.series, "name", data.baseClass) = 0
    THEN [S |-> S, ok |-> FALSE, baseClass |-> Null, modifiers |-> <<>>]
    ELSE Bind(categoryModifiers([S |-> S, modifiers |-> <<>>], data.baseClass,
                                data.features, 1),
              LAMBDA r : [S |-> r.S, ok |-> TRUE, baseClass |-> data.baseClass,
                          modifiers |-> r.modifiers])

\* the loop of compileSeries over the glyphs of a list series: [S, phonemes]
RECURSIVE seriesPhonemes(_, _, _)
seriesPhonemes(acc, glyphs, i) ==
  IF i > Len(glyphs) THEN acc
  ELSE Bind(getPhonemes(acc.S.module, glyphs[i]), LAMBDA phoneme :
         Bind(IF phoneme.glyph = Null
                THEN [acc EXCEPT !.S = pushError(@, "The glyph does not correspond to a defined phoneme.",
                                                 Span(acc.S, "glyph", i, 0))]
                ELSE [acc EXCEPT !.phonemes = Append(@, phoneme)],
              LAMBDA next : seriesPhonemes(next, glyphs, i + 1)))

\* a series: [name, seriesKind, phonemes, baseClass, modifiers]
compileSeries(S, stmt) ==
  IF getSoundEntity(S.module, stmt.label) # "undefined"
    THEN pushError(S, "A class, series or phoneme with this name is already defined",
                   Span(S, "name", 0, 0))
  ELSE IF stmt.seriesKind = "list"
    THEN Bind(seriesPhonemes([S |-> S, phonemes |-> <<>>], stmt.phonemes, 1), LAMBDA r :
           [r.S EXCEPT !.module.series =
              Append(@, [name |-> stmt.label, seriesKind |-> "list", phonemes |-> r.phonemes,
                         baseClass |-> Null, modifiers |-> <<>>])])
  ELSE Bind(compileCategory(S, stmt), LAMBDA res :
         IF ~res.ok
           THEN pushError(res.S, "No class or series exists with this name",
                          Span(S, "baseClass", 0, 0))
           ELSE [res.S EXCEPT !.module.series =
                   Append(@, [name |-> stmt.label, seriesKind |-> "category",
                              phonemes |-> <<>>, baseClass |-> res.baseClass,
                              modifiers |-> res.modifiers])])

\* ------------------------------------------------------------------------
\* Transcriptions: Module.listPhonemes, matchPhonemes, Word.render.  A string
\* is the sequence of its characters.
\* ------------------------------------------------------------------------

listPhonemes(m) == toSorted(classPhonemes(m.classes, 1), byLengthThenIndex)

\* String.prototype.startsWith
startsWith(str, prefix) ==
  /\ Len(prefix) <= Len(str)
  /\ SubSeq(str, 1, Len(prefix)) = prefix

\* a variant that takes the last phoneme of the list whose glyph `rest` starts with
lastMatch(rest, phonemes) ==
  LET hits == {i \in 1..Len(phonemes) : startsWith(rest, Chars(phonemes[i].glyph))}
  IN IF hits = {} THEN 0 ELSE CHOOSE i \in hits : \A h \in hits : i >= h

\* the first phoneme of the list whose glyph `rest` starts with: its position,
\* 0 when the for loop ends without a match
firstMatch(rest, phonemes) ==
  LET hits == {i \in 1..Len(phonemes) : startsWith(rest, Chars(phonemes[i].glyph))}
  IN IF hits = {} THEN 0 ELSE CHOOSE i \in hits : \A h \in hits : i <= h

\* offset += 1
advanceByOne(offset, ph) == offset + 1

\* offset += ph.glyph.length
advance(offset, ph) == offset + Len(Chars(ph.glyph))

\* the while loop of matchPhonemes from `offset` on; `rest` is
\* transcription.substring(offset) at the head of every iteration.  The loop leaves with
\* offset = transcription.length, so `rest` is empty after it and the
\* "Unconsumed input" result cannot be returned.
RECURSIVE matchLoop(_, _, _, _)
matchLoop(transcription, phonemes, offset, matches) ==
  IF ~(offset < Len(transcription))
    THEN [ok |-> TRUE, matches |-> matches, offset |-> offset, message |-> Null,
          rest |-> SubSeq(transcription, offset + 1, Len(transcription))]
    ELSE Bind(firstMatch(SubSeq(transcription, offset + 1, Len(transcription)), phonemes),
              LAMBDA at :
                IF at = 0
                  THEN [ok |-> FALSE, matches |-> matches, offset |-> offset,
                        message |-> "Failed to match phoneme",
                        rest |-> SubSeq(transcription, offset + 1, Len(transcription))]
                  ELSE Bind(advance(offset, phonemes[at]), LAMBDA offset1 :
                         Bind(Append(matches, [offset |-> offset,
                                               length |-> Len(Chars(phonemes[at].glyph)),
                                               phoneme |-> phonemes[at]]),
                              LAMBDA matches1 :
                                matchLoop(transcription, phonemes, offset1, matches1))))

matchPhonemes(transcription, phonemes) ==
  Bind(transcription, LAMBDA t :
    Bind(phonemes, LAMBDA phs : matchLoop(t, phs, 0, <<>>)))

\* res.matches.map(match => match.phoneme)
matchedPhonemes(res) == [i \in 1..Len(res.matches) |-> res.matches[i].phoneme]

\* Word.render: phonemes.map(ph => ph.glyph).join("")
RECURSIVE render(_)
render(phonemes) ==
  IF Len(phonemes) = 0 THEN <<>>
  ELSE Chars(phonemes[1].glyph) \o render(SubSeq(phonemes, 2, Len(phonemes)))

\* ------------------------------------------------------------------------
\* Languages, milestones, words and sound changes (lib/compiler.ts)
\* ------------------------------------------------------------------------

\* Context.hasTag
hasTag(c) ==
  /\ c.tagStart # NullTime
  /\ c.tagEnd # NullTime
  /\ c.tagLanguage # Null

\* a variant that returns `index: this.tagIndex` without the increment
getTagNoIncrement(S) ==
  IF S.ctx.tagStart = NullTime \/ S.ctx.tagEnd = NullTime \/ S.ctx.tagLanguage = Null
    THEN throw(S, "AssertionError")
    ELSE [S EXCEPT !.ctx.tagIndex = 1]

\* Context.getTag: the driver state afterwards; a failed assert throws an
\* AssertionError, otherwise the tag returned has index tagIndex - 1
getTag(S) ==
  IF S.ctx.tagStart = NullTime \/ S.ctx.tagEnd = NullTime \/ S.ctx.tagLanguage = Null
    THEN throw(S, "AssertionError")
    ELSE [S EXCEPT !.ctx.tagIndex = @ + 1]

\* the tag getTag returned when it left the context c
lastTag(c) ==
  [start |-> c.tagStart, end |-> c.tagEnd, language |-> c.tagLanguage, index |-> c.tagIndex - 1]

\* a variant that keeps the parent as written when it is not registered
compileLanguageKeepParent(S, stmt) ==
  LET parent == IF stmt.parent # Null /\ indexOf(S.module.languages, "id", stmt.parent) # 0
                  THEN stmt.parent ELSE Null
  IN Bind(IF stmt.parent # Null /\ parent = Null
            THEN pushError(S, "The parent language does not exist", Span(S, "parent", 0, 0))
            ELSE S,
          LAMBDA S1 :
            IF indexOf(S1.module.languages, "id", stmt.id) # 0
              THEN pushError(S1, "A language with this ID is already defined",
                             Span(S1, "id", 0, 0))
              ELSE [S1 EXCEPT !.module.languages =
                                Append(@, [id |-> stmt.id,
                                           name |-> IF stmt.name # Null THEN stmt.name
                                                    ELSE stmt.id,
                                           parent |-> stmt.parent]),
                              !.ctx.tagLanguage = stmt.id])

\* a variant in which the second declaration replaces the first
compileLanguageOverwrite(S, stmt) ==
  LET parent == IF stmt.parent # Null /\ indexOf(S.module.languages, "id", stmt.parent) # 0
                  THEN stmt.parent ELSE Null
      language == [id |-> stmt.id, name |-> IF stmt.name # Null THEN stmt.name ELSE stmt.id,
                   parent |-> parent]
  IN Bind(IF stmt.parent # Null /\ parent = Null
            THEN pushError(S, "The parent language does not exist", Span(S, "parent", 0, 0))
            ELSE S,
          LAMBDA S1 :
            IF indexOf(S1.module.languages, "id", stmt.id) # 0
              THEN [pushError(S1, "A language with this ID is already defined",
                              Span(S1, "id", 0, 0))
                      EXCEPT !.module.languages[indexOf(S1.module.languages, "id", stmt.id)]
                               = language]
              ELSE [S1 EXCEPT !.module.languages = Append(@, language),
                              !.ctx.tagLanguage = stmt.id])

\* a language statement is [id, name, parent], name and parent Null when absent;
\* a language is [id, name, parent: the id of the parent or Null]
compileLanguage(S, stmt) ==
  LET parent == IF stmt.parent # Null /\ indexOf(S.module.languages, "id", stmt.parent) # 0
                  THEN stmt.parent ELSE Null
  IN Bind(IF stmt.parent # Null /\ parent = Null
            THEN pushError(S, "The parent language does not exist", Span(S, "parent", 0, 0))
            ELSE S,
          LAMBDA S1 :
            IF indexOf(S1.module.languages, "id", stmt.id) # 0
              THEN pushError(S1, "A language with this ID is already defined",
                             Span(S1, "id", 0, 0))
              ELSE [S1 EXCEPT !.module.languages =
                                Append(@, [id |-> stmt.id,
                                           name |-> IF stmt.name # Null THEN stmt.name
                                                    ELSE stmt.id,
                                           parent |-> parent]),
                              !.ctx.tagLanguage = stmt.id])

\* a variant that takes the range as it is written
compileMilestoneAnyRange(S, stmt) ==
  Bind(IF stmt.time.kind = "null" THEN S
       ELSE IF stmt.time.kind = "instant"
         THEN [S EXCEPT !.ctx.tagStart = stmt.time.start, !.ctx.tagEnd = Infinity]
       ELSE IF stmt.time.start < stmt.time.end
         THEN [S EXCEPT !.ctx.tagStart = stmt.time.start, !.ctx.tagEnd = stmt.time.end]
       ELSE [pushError(S, "milestone timespan start must preceed the end",
                       Span(S, "time", 0, 0))
               EXCEPT !.ctx.tagStart = stmt.time.start, !.ctx.tagEnd = stmt.time.end],
       LAMBDA S1 :
         IF stmt.language = Null THEN S1
         ELSE IF indexOf(S1.module.languages, "id", stmt.language) = 0
           THEN pushError(S1, "the language does not exist", Span(S1, "language", 0, 0))
         ELSE [S1 EXCEPT !.ctx.tagLanguage = stmt.language])

\* a milestone statement is [time: [kind, start, end], language]; kind is
\* "null" (no time), "instant" (the time is `start`) or "range"
compileMilestone(S, stmt) ==
  Bind(IF stmt.time.kind = "null" THEN S
       ELSE IF stmt.time.kind = "instant"
         THEN [S EXCEPT !.ctx.tagStart = stmt.time.start, !.ctx.tagEnd = Infinity]
       ELSE IF stmt.time.start < stmt.time.end
         THEN [S EXCEPT !.ctx.tagStart = stmt.time.start, !.ctx.tagEnd = stmt.time.end]
       ELSE pushError(S, "milestone timespan start must preceed the end",
                      Span(S, "time", 0, 0)),
       LAMBDA S1 :
         IF stmt.language = Null THEN S1
         ELSE IF indexOf(S1.module.languages, "id", stmt.language) = 0
           THEN pushError(S1, "the language does not exist", Span(S1, "language", 0, 0))
         ELSE [S1 EXCEPT !.ctx.tagLanguage = stmt.language])

\* a word statement is [gloss, pronunciation, definitions]; a word is
\* [gloss, phonemes, definitions, tag]
compileWord(S, stmt) ==
  Bind(IF ~hasTag(S.ctx)
         THEN pushError(S, "Words cannot be defined before a milestone.",
                        Span(S, "gloss", 0, 0))
         ELSE S,
       LAMBDA S1 :
         IF indexOf(S1.module.words, "gloss", stmt.gloss) # 0
           THEN pushError(S1, "A word with this gloss is already defined",
                          Span(S1, "gloss", 0, 0))
           ELSE Bind(matchPhonemes(stmt.pronunciation, listPhonemes(S1.module)), LAMBDA res :
                  IF ~res.ok
                    THEN pushError(S1, res.message, Span(S1, "pronunciation", 0, res.offset))
                    ELSE Bind(getTag(S1), LAMBDA S2 :
                           IF S2.thrown # Null THEN S2
                           ELSE [S2 EXCEPT !.module.words =
                                   Append(@, [gloss |-> stmt.gloss,
                                              phonemes |-> matchedPhonemes(res),
                                              definitions |-> stmt.definitions,
                                              tag |-> lastTag(S2.ctx)])])))

\* one pass of the loops of compileSoundChange over the segments of a pattern:
\* [S, ok, segments] afterwards.  A segment of the statement is
\* [kind: "phonemes", glyphs] or [kind: "category", baseClass, features].
compileSegment(acc, seg, phonemes, part, i) ==
  IF seg.kind = "phonemes"
    THEN Bind(matchPhonemes(seg.glyphs, phonemes), LAMBDA res :
           IF ~res.ok
             THEN [acc EXCEPT !.S = pushError(@, res.message, Span(acc.S, part, i, res.offset)),
                              !.ok = FALSE]
             ELSE [acc EXCEPT !.segments = @ \o matchedPhonemes(res)])
    ELSE Bind(compileCategory(acc.S, seg), LAMBDA res :
           IF ~res.ok
             THEN [acc EXCEPT !.S = pushError(res.S, "No class or series exists with this name",
                                              Span(acc.S, part, i, 0)),
                              !.ok = FALSE]
             ELSE [acc EXCEPT !.S = res.S,
                              !.segments = Append(@, [kind |-> "category",
                                                      baseClass |-> res.baseClass,
                                                      modifiers |-> res.modifiers])])

\* the loop over the segments of a pattern, from segment i on; the first
\* failure is the return of compileSoundChange
RECURSIVE compileSegments(_, _, _, _, _)
compileSegments(acc, segs, phonemes, part, i) ==
  IF i > Len(segs) \/ ~acc.ok THEN acc
  ELSE Bind(compileSegment(acc, segs[i], phonemes, part, i),
            LAMBDA next : compileSegments(next, segs, phonemes, part, i + 1))

\* the loop over the elements of one side of the environment, from element e
\* on; an element is [kind: "syllable-boundary"] or [kind: "pattern", segments]
RECURSIVE compileElements(_, _, _, _, _)
compileElements(acc, els, phonemes, part, e) ==
  IF e > Len(els) \/ ~acc.ok THEN acc
  ELSE IF els[e].kind = "syllable-boundary"
    THEN compileElements(acc, els, phonemes, part, e + 1)
  ELSE Bind(compileSegments(acc, els[e].segments, phonemes, part, 1),
            LAMBDA next : compileElements(next, els, phonemes, part, e + 1))

\* the loop over the modifiers of a modification target: [S, ok, mods]
RECURSIVE targetMods(_, _, _)
targetMods(acc, mods, i) ==
  IF i > Len(mods) \/ ~acc.ok THEN acc
  ELSE Bind(getFeatures(acc.S.module, mods[i].name), LAMBDA feat :
         IF feat = NoFeatureRef
           THEN [acc EXCEPT !.S = pushError(@, "No feature exists with this name",
                                            Span(acc.S, "target", i, 0)),
                            !.ok = FALSE]
           ELSE Bind([acc EXCEPT !.mods = Append(@, [name |-> mods[i].name,
                                                     sign |-> mods[i].sign,
                                                     feature |-> feat])],
                     LAMBDA next : targetMods(next, mods, i + 1)))

\* the source of a sound change: [S, ok, segments]
compileSource(S, stmt, phonemes) ==
  IF stmt.source.kind = "pattern"
    THEN compileSegments([S |-> S, ok |-> TRUE, segments |-> <<>>],
                         stmt.source.segments, phonemes, "source", 1)
    ELSE [S |-> S, ok |-> TRUE, segments |-> <<>>]

\* the target of a sound change: [S, ok, target: [kind, phonemes, mods]]
compileTarget(S, stmt, phonemes) ==
  IF stmt.target.kind = "phonemes"
    THEN Bind(matchPhonemes(stmt.target.glyphs, phonemes), LAMBDA res :
           IF ~res.ok
             THEN [S |-> pushError(S, res.message, Span(S, "target", 0, res.offset)),
                   ok |-> FALSE,
                   target |-> [kind |-> "empty", phonemes |-> <<>>, mods |-> <<>>]]
             ELSE [S |-> S, ok |-> TRUE,
                   target |-> [kind |-> "phonemes", phonemes |-> matchedPhonemes(res),
                               mods |-> <<>>]])
  ELSE IF stmt.target.kind = "modification"
    THEN Bind(targetMods([S |-> S, ok |-> TRUE, mods |-> <<>>], stmt.target.mods, 1),
              LAMBDA res :
                [S |-> res.S, ok |-> res.ok,
                 target |-> [kind |-> "modification", phonemes |-> <<>>, mods |-> res.mods]])
  ELSE [S |-> S, ok |-> TRUE, target |-> [kind |-> "empty", phonemes |-> <<>>, mods |-> <<>>]]

\* the environment of a sound change: [S, ok, environment]
compileEnvironment(S, stmt, phonemes) ==
  IF stmt.environment.kind = "null"
    THEN [S |-> S, ok |-> TRUE, environment |-> NoEnvironment]
    ELSE Bind(compileElements([S |-> S, ok |-> TRUE, segments |-> <<>>],
                              stmt.environment.before, phonemes, "before", 1),
              LAMBDA before :
                IF ~before.ok THEN [S |-> before.S, ok |-> FALSE, environment |-> NoEnvironment]
                ELSE Bind(compileElements([S |-> before.S, ok |-> TRUE, segments |-> <<>>],
                                          stmt.environment.after, phonemes, "after", 1),
                          LAMBDA after :
                            [S |-> after.S, ok |-> after.ok,
                             environment |-> Env(before.segments, after.segments,
                                                 stmt.environment.anchorStart,
                                                 stmt.environment.anchorEnd)]))

\* a sound-change statement is [source: [kind, segments], target: [kind,
\* glyphs, mods], environment: [kind, before, after, anchorStart, anchorEnd],
\* description]; a sound change is [source, target, environment, description, tag]
compileSoundChange(S, stmt) ==
  Bind(IF ~hasTag(S.ctx)
         THEN pushError(S, "Sound changes cannot be defined before a milestone.",
                        Span(S, "source", 0, 0))
         ELSE S,
       LAMBDA S1 :
    Bind(listPhonemes(S1.module), LAMBDA modulePhonemes :
      Bind(compileSource(S1, stmt, modulePhonemes), LAMBDA source :
        IF ~source.ok THEN source.S
        ELSE Bind(compileTarget(source.S, stmt, modulePhonemes), LAMBDA target :
          IF ~target.ok THEN target.S
          ELSE Bind(compileEnvironment(target.S, stmt, modulePhonemes), LAMBDA environment :
            IF ~environment.ok THEN environment.S
            ELSE Bind(getTag(environment.S), LAMBDA S2 :
              IF S2.thrown # Null THEN S2
              ELSE [S2 EXCEPT !.module.soundChanges =
                      Append(@, [source |-> [kind |-> stmt.source.kind,
                                             segments |-> source.segments],
                                 target |-> target.target,
                                 environment |-> environment.environment,
                                 description |-> stmt.description,
                                 tag |-> lastTag(S2.ctx)])]))))))

\* ------------------------------------------------------------------------
\* Imports (lib/compiler.ts, src/module.ts).  An entity is [kind, key, value]:
\* a member of a module with the name its Map holds it under.
\* ------------------------------------------------------------------------

\* [...languages, ...traits, ...classes, ...series, ...words]: the entries the
\* Map of getEntities is built from
entityEntries(m) ==
  [i \in 1..Len(m.languages) |-> [kind |-> "language", key |-> m.languages[i].id,
                                  value |-> m.languages[i]]]
    \o [i \in 1..Len(m.traits) |-> [kind |-> "trait", key |-> m.traits[i].name,
                                    value |-> m.traits[i]]]
    \o [i \in 1..Len(m.classes) |-> [kind |-> "class", key |-> m.classes[i].name,
                                     value |-> m.classes[i]]]
    \o [i \in 1..Len(m.series) |-> [kind |-> "series", key |-> m.series[i].name,
                                    value |-> m.series[i]]]
    \o [i \in 1..Len(m.words) |-> [kind |-> "word", key |-> m.words[i].gloss,
                                   value |-> m.words[i]]]

\* new Map(entries) as the sequence of its values: a key stays where it was
\* first inserted and holds the value inserted last
mapOf(entries) ==
  LET firsts == SelectSeq([i \in 1..Len(entries) |-> i],
                          LAMBDA i : \A j \in 1..(i - 1) : entries[j].key # entries[i].key)
      lastOf(key) == CHOOSE i \in 1..Len(entries) :
                       /\ entries[i].key = key
                       /\ \A j \in (i + 1)..Len(entries) : entries[j].key # key
  IN [n \in 1..Len(firsts) |-> entries[lastOf(entries[firsts[n]].key)]]

\* Module.getEntities
getEntities(m) == mapOf(entityEntries(m))

\* Module.hasEntity
hasEntity(m, name) == \E i \in 1..Len(getEntities(m)) : getEntities(m)[i].key = name

\* Map.set(value[key], value) on a Map kept as a sequence of records
mapSet(map, key, value) ==
  IF indexOf(map, key, value[key]) # 0
    THEN [map EXCEPT ![indexOf(map, key, value[key])] = value]
    ELSE Append(map, value)

\* Module.hasMilestone
hasMilestone(m, milestone) ==
  \E i \in 1..Len(m.milestones) :
    /\ m.milestones[i].starts = milestone.starts
    /\ m.milestones[i].ends = milestone.ends
    /\ m.milestones[i].language = milestone.language

\* entity.milestones.forEach(m => { if (!this.hasMilestone(m)) this.milestones.push(m) }),
\* from milestone i on
RECURSIVE importMilestones(_, _, _)
importMilestones(S, milestones, i) ==
  IF i > Len(milestones) THEN S
  ELSE Bind(IF hasMilestone(S.module, milestones[i]) THEN S
            ELSE [S EXCEPT !.module.milestones = Append(@, milestones[i])],
            LAMBDA S1 : importMilestones(S1, milestones, i + 1))

\* entity.encodes.map(trait => this.traits.set(trait.name, trait)), from trait i
\* on; `from` is the module the class comes from, whose traits it encodes
RECURSIVE importEncodes(_, _, _, _)
importEncodes(S, from, encodes, i) ==
  IF i > Len(encodes) THEN S
  ELSE Bind([S EXCEPT !.module.traits =
                        mapSet(@, "name", from.traits[indexOf(from.traits, "name", encodes[i])])],
            LAMBDA S1 : importEncodes(S1, from, encodes, i + 1))

\* Module.import(entity).  A Language that compileLanguage built has no
\* `milestones`: entity.milestones.forEach is then a TypeError.
import(S, from, entity) ==
  IF entity.kind = "language"
    THEN Bind([S EXCEPT !.module.languages = mapSet(@, "id", entity.value)], LAMBDA S1 :
           IF "milestones" \in DOMAIN entity.value
             THEN importMilestones(S1, entity.value.milestones, 1)
             ELSE throw(S1, "TypeError"))
  ELSE IF entity.kind = "trait"
    THEN [S EXCEPT !.module.traits = mapSet(@, "name", entity.value)]
  ELSE IF entity.kind = "class"
    THEN Bind([S EXCEPT !.module.classes = mapSet(@, "name", entity.value)], LAMBDA S1 :
           importEncodes(S1, from, entity.value.encodes, 1))
  ELSE IF entity.kind = "series"
    THEN [S EXCEPT !.module.series = mapSet(@, "name", entity.value)]
  ELSE [S EXCEPT !.module.words = mapSet(@, "gloss", entity.value)]

\* Module.importFrom(module, name)
importFrom(S, from, name) ==
  Bind(getEntities(from), LAMBDA entities :
    import(S, from, entities[CHOOSE i \in 1..Len(entities) : entities[i].key = name]))

\* [...module.getEntities().values()].map(member => this.import(member)), from
\* member i on
RECURSIVE importMembers(_, _, _, _)
importMembers(S, from, entities, i) ==
  IF i > Len(entities) \/ S.thrown # Null THEN S
  ELSE Bind(import(S, from, entities[i]), LAMBDA S1 : importMembers(S1, from, entities, i + 1))

\* Module.importAllFrom(module)
importAllFrom(S, from) == importMembers(S, from, getEntities(from), 1)

\* a variant of the loop's pass that goes on to importAllFrom after the error
importNameWildcardAnyway(S, from, names, i) ==
  IF names[i] = "*"
    THEN IF Len(names) > 1
           THEN importAllFrom(pushError(S, "Wildcard imports cannot be used alongside named imports.",
                                        Span(S, "name", i, 0)), from)
           ELSE importAllFrom(S, from)
  ELSE IF ~hasEntity(from, names[i])
    THEN pushError(S, "The module has no member with this name", Span(S, "name", i, 0))
  ELSE importFrom(S, from, names[i])

\* one pass of the loop of compileImport over stmt.names
importName(S, from, names, i) ==
  IF names[i] = "*"
    THEN IF Len(names) > 1
           THEN pushError(S, "Wildcard imports cannot be used alongside named imports.",
                          Span(S, "name", i, 0))
           ELSE importAllFrom(S, from)
  ELSE IF ~hasEntity(from, names[i])
    THEN pushError(S, "The module has no member with this name", Span(S, "name", i, 0))
  ELSE importFrom(S, from, names[i])

\* the loop of compileImport over stmt.names, from name i on
RECURSIVE importNames(_, _, _, _)
importNames(S, from, names, i) ==
  IF i > Len(names) \/ S.thrown # Null THEN S
  ELSE Bind(importName(S, from, names, i), LAMBDA S1 : importNames(S1, from, names, i + 1))

\* module.errors.push(...res.module.errors.map(err => ({ message, sourceSpan, span })))
reemitErrors(S, errors) ==
  [S EXCEPT !.module.errors =
     @ \o [i \in 1..Len(errors) |-> [message |-> errors[i].message,
                                      sourceSpan |-> errors[i].span,
                                      span |-> Span(S, "path", 0, 0)]]]

\* an import statement is [path, names]; res is what the resolver returned for
\* the path: [ok, module, error]
compileImport(S, stmt, res) ==
  IF ~res.ok THEN pushError(S, res.error, Span(S, "path", 0, 0))
  ELSE Bind(reemitErrors(S, res.module.errors), LAMBDA S1 :
         importNames(S1, res.module, stmt.names, 1))

\* ------------------------------------------------------------------------
\* SpecPhon: compileModule over a source text of trait, class and series
\* statements, one action per statement kind
\* ------------------------------------------------------------------------

Member(labels, default) == [labels |-> labels, default |-> default]

TraitStmt(label, members) == [kind |-> "trait", label |-> label, members |-> members]

PhonemeDef(label, traits) == [label |-> label, traits |-> traits]

ClassStmt(label, encodes, phonemes) ==
  [kind |-> "class", label |-> label, encodes |-> encodes, phonemes |-> phonemes]

ListSeries(label, phonemes) ==
  [kind |-> "series", label |-> label, seriesKind |-> "list", phonemes |-> phonemes,
   baseClass |-> Null, features |-> <<>>]

CategorySeries(label, baseClass, features) ==
  [kind |-> "series", label |-> label, seriesKind |-> "category", phonemes |-> <<>>,
   baseClass |-> baseClass, features |-> features]

Mod(name, sign) == [name |-> name, sign |-> sign]

\* trait A { x|xx, y }   trait B { z, *w }   trait B { x }
\* trait E { *p, *y }    trait D { q, q }
TraitStmts ==
  { TraitStmt("A", <<Member(<<"x", "xx">>, FALSE), Member(<<"y">>, FALSE)>>),
    TraitStmt("B", <<Member(<<"z">>, FALSE), Member(<<"w">>, TRUE)>>),
    TraitStmt("B", <<Member(<<"x">>, FALSE)>>),
    TraitStmt("E", <<Member(<<"p">>, TRUE), Member(<<"y">>, TRUE)>>),
    TraitStmt("D", <<Member(<<"q">>, FALSE), Member(<<"q">>, FALSE)>>) }

\* class C encodes (A) { k = x, g = y }         class D encodes (A) { t = x, t = y, D = x }
\* class F encodes (A) { k = x, e = nope, g = y }   class G encodes (Z) { f }
\* class H encodes (A) { m = x z }              class I encodes (A) { n }
\* class J encodes (A B) { i = x, j = y w }     class k encodes () { }
ClassStmts ==
  { ClassStmt("C", <<"A">>, <<PhonemeDef("k", <<"x">>), PhonemeDef("g", <<"y">>)>>),
    ClassStmt("D", <<"A">>, <<PhonemeDef("t", <<"x">>), PhonemeDef("t", <<"y">>),
                              PhonemeDef("D", <<"x">>)>>),
    ClassStmt("F", <<"A">>, <<PhonemeDef("k", <<"x">>), PhonemeDef("e", <<"nope">>),
                              PhonemeDef("g", <<"y">>)>>),
    ClassStmt("G", <<"Z">>, <<PhonemeDef("f", <<>>)>>),
    ClassStmt("H", <<"A">>, <<PhonemeDef("m", <<"x", "z">>)>>),
    ClassStmt("I", <<"A">>, <<PhonemeDef("n", <<>>)>>),
    ClassStmt("J", <<"A", "B">>, <<PhonemeDef("i", <<"x">>), PhonemeDef("j", <<"y", "w">>)>>),
    ClassStmt("k", <<>>, <<>>) }

\* series S = { k, g, s }    series N = [C +x -nope]    series t = { k }
\* series M = [Q +x]         series C = { k }           series L = [S -y]
SeriesStmts ==
  { ListSeries("S", <<"k", "g", "s">>),
    CategorySeries("N", "C", <<Mod("x", "positive"), Mod("nope", "negative")>>),
    ListSeries("t", <<"k">>),
    CategorySeries("M", "Q", <<Mod("x", "positive")>>),
    ListSeries("C", <<"k">>),
    CategorySeries("L", "S", <<Mod("y", "negative")>>) }

InitPhon ==
  /\ module = NewState.module
  /\ ctx = NewState.ctx
  /\ thrown = Null
  /\ out = [op |-> "none"]
  /\ EngineIdle

\* the driver state as the loop of compileModule takes the next statement
AtNextStatement == [module |-> module, ctx |-> [ctx EXCEPT !.stmt = @ + 1], thrown |-> thrown]

\* the driver state a handler leaves
Becomes(S) ==
  \E after \in {S} :
    /\ module' = after.module
    /\ ctx' = after.ctx
    /\ thrown' = after.thrown

CompileTrait(stmt) ==
  /\ thrown = Null
  /\ ctx.stmt < MaxStmts
  /\ Becomes(compileTrait(AtNextStatement, stmt))
  /\ UNCHANGED <<engineVars, out>>

CompileClass(stmt) ==
  /\ thrown = Null
  /\ ctx.stmt < MaxStmts
  /\ Becomes(compileClass(AtNextStatement, stmt))
  /\ UNCHANGED <<engineVars, out>>

CompileSeries(stmt) ==
  /\ thrown = Null
  /\ ctx.stmt < MaxStmts
  /\ Becomes(compileSeries(AtNextStatement, stmt))
  /\ UNCHANGED <<engineVars, out>>

NextPhon ==
  \/ \E stmt \in TraitStmts : CompileTrait(stmt)
  \/ \E stmt \in ClassStmts : CompileClass(stmt)
  \/ \E stmt \in SeriesStmts : CompileSeries(stmt)

SpecPhon == InitPhon /\ [][NextPhon]_vars

\* the features registered in module.traits: <<trait position, feature position>>
RegisteredFeatures ==
  UNION {{<<t, f>> : f \in 1..Len(module.traits[t].features)} : t \in 1..Len(module.traits)}

LabelsOf(tf) == module.traits[tf[1]].features[tf[2]].labels

\* C8: no feature label names two distinct features registered in
\* module.traits, of different traits or of the same trait.
C8_LabelsUnique ==
  \A tf1, tf2 \in RegisteredFeatures :
    tf1 # tf2 => ~(\E l \in 1..Len(LabelsOf(tf1)) : InSeq(LabelsOf(tf1)[l], LabelsOf(tf2)))

\* the phonemes registered in module.classes: <<class position, phoneme position>>
RegisteredPhonemes ==
  UNION {{<<c, p>> : p \in 1..Len(module.classes[c].phonemes)} : c \in 1..Len(module.classes)}

GlyphOf(cp) == module.classes[cp[1]].phonemes[cp[2]].glyph

\* C9: every registered phoneme glyph differs from every other registered
\* phoneme glyph, from every class name and from every series name.
C9_SoundEntityNamesUnique ==
  \A cp \in RegisteredPhonemes :
    /\ \A other \in RegisteredPhonemes : other # cp => GlyphOf(other) # GlyphOf(cp)
    /\ \A c \in 1..Len(module.classes) : module.classes[c].name # GlyphOf(cp)
    /\ \A n \in 1..Len(module.series) : module.series[n].name # GlyphOf(cp)

\* the traits that the class at position c of m.classes encodes
EncodedBy(m, c) == {m.classes[c].encodes[i] : i \in 1..Len(m.classes[c].encodes)}

\* C16: every phoneme registered in a class has a feature map whose key set
\* is the set of the traits that its class encodes.
C16_FeatureKeysEqualEncodes ==
  \A cp \in RegisteredPhonemes :
    DOMAIN module.classes[cp[1]].phonemes[cp[2]].features = EncodedBy(module, cp[1])

\* C16 (amended): every phoneme registered in a class has a feature map whose
\* keys are among the traits that its class encodes, and are all of them when
\* the class statement that registered it recorded no error.
C16_FeatureKeysWithinEncodes ==
  [][ /\ \A c \in 1..Len(module'.classes) :
           \A ph \in 1..Len(module'.classes[c].phonemes) :
             DOMAIN module'.classes[c].phonemes[ph].features \subseteq EncodedBy(module', c)
      /\ Len(module'.errors) = Len(module.errors) =>
           \A c \in (Len(module.classes) + 1)..Len(module'.classes) :
             \A ph \in 1..Len(module'.classes[c].phonemes) :
               DOMAIN module'.classes[c].phonemes[ph].features = EncodedBy(module', c) ]_vars

\* trait A, class C encodes (A) { k = x, g = y } without an error, and then a
\* class whose phoneme e names no feature of A: e is registered without features
C16_Witness ==
  /\ Len(module.classes) = 2
  /\ Len(module.classes[1].phonemes) = 2
  /\ \A ph \in 1..2 : DOMAIN module.classes[1].phonemes[ph].features = {"A"}
  /\ module.classes[2].encodes = <<"A">>
  /\ \E ph \in 1..Len(module.classes[2].phonemes) :
       DOMAIN module.classes[2].phonemes[ph].features = {}

\* the class statement can be compiled in module m (its name is free, the traits
\* it encodes are registered) and one of its phonemes, with a free glyph, lists
\* another number of features than the class encodes
ArityMismatch(m, stmt) ==
  /\ getSoundEntity(m, stmt.label) = "undefined"
  /\ \A i \in 1..Len(stmt.encodes) : indexOf(m.traits, "name", stmt.encodes[i]) # 0
  /\ \E p \in 1..Len(stmt.phonemes) :
       /\ getSoundEntity(m, stmt.phonemes[p].label) = "undefined"
       /\ Len(stmt.phonemes[p].traits) # Len(stmt.encodes)

\* C23: a class statement with a phoneme whose number of feature labels differs
\* from the number of encoded traits (fewer, more or none) records an error and
\* compilation goes on: nothing is thrown, the class is registered with every
\* phoneme of the statement whose glyph was free, and each of them has the
\* features that its labels resolve to in the encoded traits.
C23_ArityErrorContinues ==
  [][ \A stmt \in ClassStmts :
        (CompileClass(stmt) /\ ArityMismatch(module, stmt)) =>
          /\ thrown' = Null
          /\ Len(module'.errors) > Len(module.errors)
          /\ Len(module'.classes) = Len(module.classes) + 1
          /\ module'.classes[Len(module'.classes)].name = stmt.label
          /\ \A p \in 1..Len(stmt.phonemes) :
               getSoundEntity(module, stmt.phonemes[p].label) = "undefined" =>
                 \E ph \in 1..Len(module'.classes[Len(module'.classes)].phonemes) :
                   LET phoneme == module'.classes[Len(module'.classes)].phonemes[ph]
                   IN /\ phoneme.glyph = stmt.phonemes[p].label
                      /\ \A i \in 1..Min(Len(stmt.phonemes[p].traits), Len(stmt.encodes)) :
                           LET trait == module.traits[indexOf(module.traits, "name",
                                                              stmt.encodes[i])]
                           IN findFeature(trait, stmt.phonemes[p].traits[i]) # 0 =>
                                stmt.encodes[i] \in DOMAIN phoneme.features ]_vars

\* ------------------------------------------------------------------------
\* SpecMatch: a class of phonemes without features is compiled, a sequence of
\* its phonemes is rendered and the transcription matched against the inventory
\* ------------------------------------------------------------------------

MatchGlyphs == {"t", "s", "ts", "a"}

\* class C encodes () { g1, g2, ... }
InventoryStmt(glyphs) ==
  ClassStmt("C", <<>>, [i \in 1..Len(glyphs) |-> PhonemeDef(glyphs[i], <<>>)])

InitMatch ==
  \E glyphs \in SeqsUpTo(MatchGlyphs, MaxInventory) :
    \E S \in {compileClass([NewState EXCEPT !.ctx.stmt = 1], InventoryStmt(glyphs))} :
       /\ module = S.module
       /\ ctx = S.ctx
       /\ thrown = S.thrown
       /\ \E s \in SeqsUpTo({S.module.classes[1].phonemes[i] :
                               i \in 1..Len(S.module.classes[1].phonemes)}, MaxSeq) :
            out = [op |-> "none", s |-> s, transcription |-> <<>>, phonemes |-> <<>>,
                   res |-> [ok |-> FALSE, matches |-> <<>>, offset |-> 0, message |-> Null,
                            rest |-> <<>>]]
       /\ EngineIdle

\* matchPhonemes(new Word(_, s, ...).render(), module.listPhonemes())
Match ==
  /\ out.op = "none"
  /\ \E transcription \in {render(out.s)}, phonemes \in {listPhonemes(module)} :
       out' = [op |-> "match", s |-> out.s, transcription |-> transcription,
               phonemes |-> phonemes, res |-> matchPhonemes(transcription, phonemes)]
  /\ UNCHANGED <<engineVars, driverVars>>

\* the characters a pronunciation is written with; x is no phoneme's glyph
TextChars == {"t", "s", "a", "x"}

\* matchPhonemes(text, module.listPhonemes()) for a pronunciation as written
MatchText(text) ==
  /\ out.op = "none"
  /\ out.s = <<>>
  /\ \E phonemes \in {listPhonemes(module)} :
       out' = [op |-> "matchText", s |-> out.s, transcription |-> text,
               phonemes |-> phonemes, res |-> matchPhonemes(text, phonemes)]
  /\ UNCHANGED <<engineVars, driverVars>>

NextMatch ==
  \/ Match
  \/ \E text \in SeqsUpTo(TextChars, MaxText) : MatchText(text)

SpecMatch == InitMatch /\ [][NextMatch]_vars

\* C7: for every inventory ordered as listPhonemes orders it and every
\* sequence s of its phonemes, matchPhonemes(render(s), inventory) succeeds
\* and the phonemes of its matches are exactly s.
C7_RoundTrip ==
  out.op = "match" => (out.res.ok /\ matchedPhonemes(out.res) = out.s)

\* no phoneme's glyph is empty or starts another phoneme's glyph (so no two
\* phonemes share a glyph)
PrefixFree(phonemes) ==
  \A i, j \in 1..Len(phonemes) :
    /\ Len(Chars(phonemes[i].glyph)) > 0
    /\ i # j => ~startsWith(Chars(phonemes[j].glyph), Chars(phonemes[i].glyph))

\* C7 (amended): when no glyph of the inventory is a prefix of another
\* phoneme's glyph, matchPhonemes(render(s), inventory) succeeds with exactly
\* the phonemes s; and for every inventory, a successful match of render(s)
\* consumes the whole transcription and its phonemes render to render(s).
C7_RoundTripPrefixFree ==
  out.op = "match" =>
    /\ PrefixFree(out.phonemes) => (out.res.ok /\ matchedPhonemes(out.res) = out.s)
    /\ out.res.ok => render(matchedPhonemes(out.res)) = out.transcription

\* a prefix-free inventory with a glyph of two characters, used twice in s
C7_Witness ==
  /\ out.op = "match"
  /\ PrefixFree(out.phonemes)
  /\ Len(out.phonemes) >= 2
  /\ Len(out.s) >= 2
  /\ \E i \in 1..Len(out.s) : Len(Chars(out.s[i].glyph)) = 2
  /\ out.res.ok

\* the lengths of the first k matches, summed
RECURSIVE Consumed(_, _)
Consumed(matches, k) ==
  IF k = 0 THEN 0 ELSE Consumed(matches, k - 1) + matches[k].length

\* no phoneme of the list has a glyph that the text starts with
NoGlyphStarts(text, phonemes) ==
  \A j \in 1..Len(phonemes) :
    \/ Len(Chars(phonemes[j].glyph)) > Len(text)
    \/ SubSeq(text, 1, Len(Chars(phonemes[j].glyph))) # Chars(phonemes[j].glyph)

\* C21: matchPhonemes scans left to right.  Every match starts where the
\* matches before it end, is as long as its phoneme's glyph (at least one
\* character, so there are at most as many matches as characters), covers that
\* glyph in the text, and its phoneme is the first of the list whose glyph the
\* text starts with at that offset.  On success the matches cover the whole
\* text (none for the empty text); on failure offset is the end of the
\* matches, before the end of the text, no glyph starts the text there and
\* rest is the text from that offset.
C21_LeftToRightFirstMatch ==
  out.op \in {"match", "matchText"} =>
    LET res == out.res
        text == out.transcription
        tail(offset) == SubSeq(text, offset + 1, Len(text))
    IN /\ \A k \in 1..Len(res.matches) :
            LET match == res.matches[k]
            IN /\ match.offset = Consumed(res.matches, k - 1)
               /\ match.length = Len(Chars(match.phoneme.glyph))
               /\ match.length > 0
               /\ SubSeq(text, match.offset + 1, match.offset + match.length)
                    = Chars(match.phoneme.glyph)
               /\ \E at \in 1..Len(out.phonemes) :
                    /\ out.phonemes[at] = match.phoneme
                    /\ NoGlyphStarts(tail(match.offset), SubSeq(out.phonemes, 1, at - 1))
       /\ Len(res.matches) <= Len(text)
       /\ res.ok => Consumed(res.matches, Len(res.matches)) = Len(text)
       /\ text = <<>> => (res.ok /\ res.matches = <<>>)
       /\ ~res.ok =>
            /\ res.offset = Consumed(res.matches, Len(res.matches))
            /\ res.offset < Len(text)
            /\ NoGlyphStarts(tail(res.offset), out.phonemes)
            /\ res.rest = tail(res.offset)

\* the inventory {ts, t, s}: "tsx" is matched as ts, taken before t, and fails
\* at offset 2 with rest "x"
C21_Witness ==
  /\ out.op = "matchText"
  /\ out.transcription = <<"t", "s", "x">>
  /\ Len(out.phonemes) = 3
  /\ ~out.res.ok
  /\ Len(out.res.matches) = 1
  /\ out.res.matches[1].phoneme.glyph = "ts"
  /\ out.res.offset = 2
  /\ out.res.rest = <<"x">>

\* ------------------------------------------------------------------------
\* Spec: compileModule over a source text that declares an inventory and goes
\* on with language, milestone, word and sound-change statements, one action
\* per statement kind
\* ------------------------------------------------------------------------

\* trait voicing { voiced, *unvoiced }     trait place { *velar, palatal, bilabial }
\* trait rounding { *unrounded, rounded }
\* class C encodes (voicing place) { k = unvoiced velar, g = voiced velar, c = unvoiced palatal }
\* class V encodes (rounding) { a = unrounded, o = rounded }
\* series S = { k, c }                     series T = [C +voiced]
InventorySource ==
  << TraitStmt("voicing", <<Member(<<"voiced">>, FALSE), Member(<<"unvoiced">>, TRUE)>>),
     TraitStmt("place", <<Member(<<"velar">>, TRUE), Member(<<"palatal">>, FALSE),
                          Member(<<"bilabial">>, FALSE)>>),
     TraitStmt("rounding", <<Member(<<"unrounded">>, TRUE), Member(<<"rounded">>, FALSE)>>),
     ClassStmt("C", <<"voicing", "place">>,
               <<PhonemeDef("k", <<"unvoiced", "velar">>), PhonemeDef("g", <<"voiced", "velar">>),
                 PhonemeDef("c", <<"unvoiced", "palatal">>)>>),
     ClassStmt("V", <<"rounding">>,
               <<PhonemeDef("a", <<"unrounded">>), PhonemeDef("o", <<"rounded">>)>>),
     ListSeries("S", <<"k", "c">>),
     CategorySeries("T", "C", <<Mod("voiced", "positive")>>) >>

\* compileStatement for the statement kinds of the inventory
compileInventoryStatement(S, stmt) ==
  IF stmt.kind = "trait" THEN compileTrait(S, stmt)
  ELSE IF stmt.kind = "class" THEN compileClass(S, stmt)
  ELSE compileSeries(S, stmt)

\* the loop of compileModule over the first n statements of the inventory
RECURSIVE compileInventory(_)
compileInventory(n) ==
  IF n = 0 THEN NewState
  ELSE Bind(compileInventory(n - 1), LAMBDA S :
         Bind([S EXCEPT !.ctx.stmt = @ + 1], LAMBDA S1 :
           compileInventoryStatement(S1, InventorySource[n])))

LanguageStmt(id, name, parent) ==
  [kind |-> "language", id |-> id, name |-> name, parent |-> parent]

NoTime == [kind |-> "null", start |-> NullTime, end |-> NullTime]

Instant(time) == [kind |-> "instant", start |-> time, end |-> NullTime]

Range(start, end) == [kind |-> "range", start |-> start, end |-> end]

MilestoneStmt(time, language) == [kind |-> "milestone", time |-> time, language |-> language]

WordStmt(gloss, pronunciation) ==
  [kind |-> "word", gloss |-> gloss, pronunciation |-> pronunciation,
   definitions |-> <<[partOfSpeech |-> Null, text |-> gloss]>>]

GlyphsSeg(glyphs) == [kind |-> "phonemes", glyphs |-> glyphs]

CategorySeg(baseClass, features) ==
  [kind |-> "category", baseClass |-> baseClass, features |-> features]

Boundary == [kind |-> "syllable-boundary", segments |-> <<>>]

Element(segments) == [kind |-> "pattern", segments |-> segments]

SoundChangeStmt(source, target, environment) ==
  [kind |-> "sound-change", source |-> source, target |-> target,
   environment |-> environment, description |-> Null]

GlyphsTarget(glyphs) == [kind |-> "phonemes", glyphs |-> glyphs, mods |-> <<>>]

ModsTarget(mods) == [kind |-> "modification", glyphs |-> <<>>, mods |-> mods]

\* lang ON: Old N    lang EI < ON    lang FA < ZZ    lang ON < EI: Other N
LanguageStmts ==
  { LanguageStmt("ON", "Old N", Null), LanguageStmt("EI", Null, "ON"),
    LanguageStmt("FA", Null, "ZZ"), LanguageStmt("ON", "Other N", "EI") }

\* @ 1      @ 2..3, ON      @ 3..2      @ , EI      @ 2, ZZ
MilestoneStmts ==
  { MilestoneStmt(Instant(1), Null), MilestoneStmt(Range(2, 3), "ON"),
    MilestoneStmt(Range(3, 2), Null), MilestoneStmt(NoTime, "EI"),
    MilestoneStmt(Instant(2), "ZZ") }

\* - w1 /ka/      - w2 /go/      - w1 /kz/
WordStmts ==
  { WordStmt("w1", <<"k", "a">>), WordStmt("w2", <<"g", "o">>), WordStmt("w1", <<"k", "z">>) }

\* $ k > c                         $ [C +velar] > [+palatal] / a . _ #
\* $ z > k                         $ k > [+nope]
\* $ [] > a / _ [Q]
SoundChangeStmts ==
  { SoundChangeStmt(Pattern(<<GlyphsSeg(<<"k">>)>>), GlyphsTarget(<<"c">>), NoEnvironment),
    SoundChangeStmt(Pattern(<<CategorySeg("C", <<Mod("velar", "positive")>>)>>),
                    ModsTarget(<<Mod("palatal", "positive")>>),
                    Env(<<Element(<<GlyphsSeg(<<"a">>)>>), Boundary>>, <<>>, FALSE, TRUE)),
    SoundChangeStmt(Pattern(<<GlyphsSeg(<<"z">>)>>), GlyphsTarget(<<"k">>), NoEnvironment),
    SoundChangeStmt(Pattern(<<GlyphsSeg(<<"k">>)>>), ModsTarget(<<Mod("nope", "positive")>>),
                    NoEnvironment),
    SoundChangeStmt(EmptySource, GlyphsTarget(<<"a">>),
                    Env(<<>>, <<Element(<<CategorySeg("Q", <<>>)>>)>>, FALSE, FALSE)) }

\* class N encodes (rounding) { e = unrounded, u = rounded }
\* class M encodes (voicing) { k = voiced, m = voiced, n }
LaterClassStmts ==
  { ClassStmt("N", <<"rounding">>,
              <<PhonemeDef("e", <<"unrounded">>), PhonemeDef("u", <<"rounded">>)>>),
    ClassStmt("M", <<"voicing">>,
              <<PhonemeDef("k", <<"voiced">>), PhonemeDef("m", <<"voiced">>),
                PhonemeDef("n", <<"nope">>)>>) }

\* the driver has compiled the inventory
Init ==
  /\ \E S \in {compileInventory(Len(InventorySource))} :
       /\ module = S.module
       /\ ctx = [S.ctx EXCEPT !.stmt = 0]
       /\ thrown = S.thrown
  /\ out = [op |-> "none", hadTag |-> FALSE, errors |-> 0]
  /\ EngineIdle

\* the driver takes the next statement while fewer than MaxSource are compiled
\* and no exception has ended compileModule
MoreSource ==
  /\ thrown = Null
  /\ ctx.stmt < MaxSource

CompileLanguage(stmt) ==
  /\ MoreSource
  /\ Becomes(compileLanguage(AtNextStatement, stmt))
  /\ UNCHANGED <<engineVars, out>>

CompileMilestone(stmt) ==
  /\ MoreSource
  /\ Becomes(compileMilestone(AtNextStatement, stmt))
  /\ UNCHANGED <<engineVars, out>>

CompileWord(stmt) ==
  /\ MoreSource
  /\ Becomes(compileWord(AtNextStatement, stmt))
  /\ out' = [op |-> "word", hadTag |-> hasTag(ctx), errors |-> Len(module.errors)]
  /\ UNCHANGED engineVars

CompileSoundChange(stmt) ==
  /\ MoreSource
  /\ Becomes(compileSoundChange(AtNextStatement, stmt))
  /\ out' = [op |-> "sound-change", hadTag |-> hasTag(ctx), errors |-> Len(module.errors)]
  /\ UNCHANGED engineVars

\* a class statement after the inventory
CompileLaterClass(stmt) ==
  /\ MoreSource
  /\ Becomes(compileClass(AtNextStatement, stmt))
  /\ UNCHANGED <<engineVars, out>>

Next ==
  \/ \E stmt \in LanguageStmts : CompileLanguage(stmt)
  \/ \E stmt \in MilestoneStmts : CompileMilestone(stmt)
  \/ \E stmt \in WordStmts : CompileWord(stmt)
  \/ \E stmt \in SoundChangeStmts : CompileSoundChange(stmt)
  \/ \E stmt \in LaterClassStmts : CompileLaterClass(stmt)

Spec == Init /\ [][Next]_vars

\* C1: compileModule never throws; every failure it meets is an entry of
\* module.errors.
C1_NeverThrows == thrown = Null

\* C2: a word or sound-change statement processed while the context has no
\* materializable tag records its error and compilation continues; getTag is
\* never called while hasTag() is false, so its assertions never fail.
C2_NoTagIsAnErrorOnly ==
  (out.op \in {"word", "sound-change"} /\ ~out.hadTag)
    => (thrown = Null /\ Len(module.errors) > out.errors)

\* C17: a language statement whose id is already registered, with no parent
\* or a parent that resolves, records exactly one error, at the span of the
\* id, and leaves module.languages as it was: the first definition stays
\* registered unchanged and no language is added.
C17_DuplicateLanguage ==
  [][ \A stmt \in LanguageStmts :
        (/\ CompileLanguage(stmt)
         /\ indexOf(module.languages, "id", stmt.id) # 0
         /\ (stmt.parent = Null \/ indexOf(module.languages, "id", stmt.parent) # 0))
        => /\ Len(module'.errors) = Len(module.errors) + 1
           /\ SubSeq(module'.errors, 1, Len(module.errors)) = module.errors
           /\ module'.errors[Len(module'.errors)].span
                = [stmt |-> ctx.stmt + 1, part |-> "id", i |-> 0, j |-> 0]
           /\ module'.languages = module.languages ]_vars

\* `lang ON: Old N`, `lang EI < ON` and then `lang ON < EI: Other N`: one
\* error at the id of the third statement, and ON is still "Old N" without a
\* parent
C17_Witness ==
  /\ ctx.stmt = 3
  /\ Len(module.languages) = 2
  /\ module.languages[1] = [id |-> "ON", name |-> "Old N", parent |-> Null]
  /\ Len(module.errors) = 1
  /\ module.errors[1].message = "A language with this ID is already defined"
  /\ module.errors[1].span = [stmt |-> 3, part |-> "id", i |-> 0, j |-> 0]

\* the indices of the tags that module m holds: of its words and sound changes
TagIndices(m) ==
  {m.words[i].tag.index : i \in 1..Len(m.words)}
    \cup {m.soundChanges[i].tag.index : i \in 1..Len(m.soundChanges)}

\* C11: a statement gives the word or sound change it registers a tag whose
\* index is greater than the index of every tag registered before it, and the
\* phonemes registered by the class statements hold indices that increase in
\* declaration order; so no two tags and no two phonemes of a compilation
\* share an index.
C11_DeclarationOrder ==
  [][ /\ \A i \in (Len(module.words) + 1)..Len(module'.words) :
           \A t \in TagIndices(module) : t < module'.words[i].tag.index
      /\ \A i \in (Len(module.soundChanges) + 1)..Len(module'.soundChanges) :
           \A t \in TagIndices(module) : t < module'.soundChanges[i].tag.index
      /\ Cardinality(TagIndices(module')) = Len(module'.words) + Len(module'.soundChanges)
      /\ LET phonemes == classPhonemes(module'.classes, 1)
         IN \A i, j \in 1..Len(phonemes) : i < j => phonemes[i].index < phonemes[j].index ]_vars

\* a word and, after it, a sound change hold the tags 0 and 1, behind the
\* five phonemes of the inventory's two class statements
C11_Witness ==
  /\ Len(module.words) = 1
  /\ Len(module.soundChanges) = 1
  /\ module.words[1].tag.index = 0
  /\ module.soundChanges[1].tag.index = 1
  /\ Len(classPhonemes(module.classes, 1)) = 5

\* the time a milestone statement sets is valid: an instant, or a range whose
\* start precedes its end
ValidTime(time) ==
  \/ time.kind = "instant"
  \/ time.kind = "range" /\ time.start < time.end

\* the id of the language a milestone statement is about in the context c: the
\* language it names or else the current language; Null when that is unresolved
MilestoneLanguage(m, c, stmt) ==
  IF stmt.language = Null THEN c.tagLanguage
  ELSE IF indexOf(m.languages, "id", stmt.language) # 0 THEN stmt.language
  ELSE Null

\* the milestone of a statement with a valid time, for the language L
MilestoneOf(stmt, L) ==
  [starts |-> stmt.time.start,
   ends |-> IF stmt.time.kind = "instant" THEN Infinity ELSE stmt.time.end,
   language |-> L]

\* C12: after a milestone statement that sets a valid time for a resolved
\* current or named language L, module.milestones holds a milestone with that
\* (starts, ends, language), an instant t giving starts = t and ends =
\* Infinity (and so does L's own list, which the Language objects of the
\* driver would have to carry), and module.milestones never holds two
\* milestones with equal (starts, ends, language).
C12_MilestoneRecorded ==
  [][ \A stmt \in MilestoneStmts :
        (/\ CompileMilestone(stmt)
         /\ ValidTime(stmt.time)
         /\ MilestoneLanguage(module, ctx, stmt) # Null)
        => /\ \E i \in 1..Len(module'.milestones) :
                module'.milestones[i] = MilestoneOf(stmt, MilestoneLanguage(module, ctx, stmt))
           /\ \A i, j \in 1..Len(module'.milestones) :
                i # j => module'.milestones[i] # module'.milestones[j] ]_vars

\* ------------------------------------------------------------------------
\* SpecTime: compileModule over a source text of language and milestone
\* statements
\* ------------------------------------------------------------------------

\* most statements of a source text in SpecTime
MaxTimeStmts == 4

\* lang ON      lang EI < ON      lang SE < SE      lang FA < ZZ      lang ON < EI
TimeLanguageStmts ==
  { LanguageStmt("ON", Null, Null), LanguageStmt("EI", Null, "ON"),
    LanguageStmt("SE", Null, "SE"), LanguageStmt("FA", Null, "ZZ"),
    LanguageStmt("ON", Null, "EI") }

\* @ 1      @ 2..3      @ 3..2      @ 2..2      @ 3..2, ON      @ 2..2, EI
\* @ 3..2, ZZ
TimeMilestoneStmts ==
  { MilestoneStmt(Instant(1), Null), MilestoneStmt(Range(2, 3), Null),
    MilestoneStmt(Range(3, 2), Null), MilestoneStmt(Range(2, 2), Null),
    MilestoneStmt(Range(3, 2), "ON"), MilestoneStmt(Range(2, 2), "EI"),
    MilestoneStmt(Range(3, 2), "ZZ") }

InitTime ==
  /\ module = NewState.module
  /\ ctx = NewState.ctx
  /\ thrown = Null
  /\ out = [op |-> "none"]
  /\ EngineIdle

DeclareLanguage(stmt) ==
  /\ thrown = Null
  /\ ctx.stmt < MaxTimeStmts
  /\ Becomes(compileLanguage(AtNextStatement, stmt))
  /\ UNCHANGED <<engineVars, out>>

SetMilestone(stmt) ==
  /\ thrown = Null
  /\ ctx.stmt < MaxTimeStmts
  /\ Becomes(compileMilestone(AtNextStatement, stmt))
  /\ UNCHANGED <<engineVars, out>>

NextTime ==
  \/ \E stmt \in TimeLanguageStmts : DeclareLanguage(stmt)
  \/ \E stmt \in TimeMilestoneStmts : SetMilestone(stmt)

SpecTime == InitTime /\ [][NextTime]_vars

\* the messages of the errors that the step recorded
NewMessages ==
  [e \in 1..(Len(module'.errors) - Len(module.errors)) |->
     module'.errors[Len(module.errors) + e].message]

\* C27: a milestone statement with a range a..b, a >= b, records the timespan
\* error and leaves the current time window as it was; its language, when
\* given and registered, becomes the current language, and when given and not
\* registered records a second error and leaves the current language as it
\* was; nothing else of the module changes.
C27_InvertedRangeKeepsWindow ==
  [][ \A stmt \in TimeMilestoneStmts :
        (SetMilestone(stmt) /\ stmt.time.kind = "range" /\ stmt.time.start >= stmt.time.end)
        => /\ ctx'.tagStart = ctx.tagStart
           /\ ctx'.tagEnd = ctx.tagEnd
           /\ thrown' = Null
           /\ module' = [module EXCEPT !.errors = module'.errors]
           /\ SubSeq(module'.errors, 1, Len(module.errors)) = module.errors
           /\ IF stmt.language = Null
                THEN /\ ctx'.tagLanguage = ctx.tagLanguage
                     /\ NewMessages = <<"milestone timespan start must preceed the end">>
              ELSE IF \E l \in 1..Len(module.languages) : module.languages[l].id = stmt.language
                THEN /\ ctx'.tagLanguage = stmt.language
                     /\ NewMessages = <<"milestone timespan start must preceed the end">>
              ELSE /\ ctx'.tagLanguage = ctx.tagLanguage
                   /\ NewMessages = <<"milestone timespan start must preceed the end",
                                      "the language does not exist">> ]_vars

\* lang ON, lang EI < ON, @ 1, @ 3..2, ON: the window is still [1, Infinity), the
\* current language went from EI to ON and the module has one error
C27_Witness ==
  /\ ctx.stmt = 4
  /\ Len(module.languages) = 2
  /\ ctx.tagStart = 1
  /\ ctx.tagEnd = Infinity
  /\ ctx.tagLanguage = "ON"
  /\ Len(module.errors) = 1
  /\ module.errors[1].message = "milestone timespan start must preceed the end"
  /\ module.errors[1].span.stmt = 4

\* isChildLanguage(child, maybeParent) for the languages at positions child and
\* maybeParent of a module's language map, child.parent read from the map
RECURSIVE isChildLanguageIn(_, _, _)
isChildLanguageIn(languages, child, maybeParent) ==
  IF child = maybeParent THEN TRUE
  ELSE IF languages[child].parent = Null THEN FALSE
  ELSE IF indexOf(languages, "id", languages[child].parent) = maybeParent THEN TRUE
  ELSE isChildLanguageIn(languages, indexOf(languages, "id", languages[child].parent),
                         maybeParent)

\* the positions of the language at position i and of its ancestors, all of
\* them at most i when every parent was registered before its child
AncestorPositions(languages, i) ==
  LET up == [j \in 1..Len(languages) |->
               IF languages[j].parent = Null THEN 0
               ELSE indexOf(languages, "id", languages[j].parent)]
      RECURSIVE closure(_, _)
      closure(reached, n) ==
        IF n = 0 THEN reached
        ELSE closure(reached \cup ({up[j] : j \in reached} \ {0}), n - 1)
  IN closure({i}, Len(languages))

\* C29: after any sequence of language statements every registered language
\* has a parent that is null or a language registered before it, and no two
\* have the same id; a statement naming a parent that is not registered (an
\* undeclared one, or the language itself) registers the language with parent
\* null and records one error.  So the parent links have no cycle, and
\* isChildLanguage ends for every pair of languages, with the answer that the
\* ancestors by registration give.
C29_LanguagesFormATree ==
  [][ /\ \A i \in 1..Len(module'.languages) :
           /\ \/ module'.languages[i].parent = Null
              \/ \E j \in 1..(i - 1) : module'.languages[j].id = module'.languages[i].parent
           /\ \A j \in 1..(i - 1) : module'.languages[j].id # module'.languages[i].id
      /\ \A stmt \in TimeLanguageStmts :
           (/\ DeclareLanguage(stmt)
            /\ stmt.parent # Null
            /\ \A l \in 1..Len(module.languages) :
                 module.languages[l].id \notin {stmt.parent, stmt.id})
           => /\ module'.languages
                   = Append(module.languages, [id |-> stmt.id, name |-> stmt.id, parent |-> Null])
              /\ Len(module'.errors) = Len(module.errors) + 1
      /\ \A i, j \in 1..Len(module'.languages) :
           isChildLanguageIn(module'.languages, i, j)
             <=> j \in AncestorPositions(module'.languages, i) ]_vars

\* lang ON, lang EI < ON, lang SE < SE, lang ON < EI: three languages, SE
\* without a parent, ON still without a parent, two errors
C29_Witness ==
  /\ Len(module.languages) = 3
  /\ module.languages[1] = [id |-> "ON", name |-> "ON", parent |-> Null]
  /\ module.languages[2] = [id |-> "EI", name |-> "EI", parent |-> "ON"]
  /\ module.languages[3] = [id |-> "SE", name |-> "SE", parent |-> Null]
  /\ Len(module.errors) = 2

\* ------------------------------------------------------------------------
\* SpecImport: compileModule over a source text of import statements and of
\* trait and series statements of its own, with a
\* resolver that holds two library sources
\* ------------------------------------------------------------------------

\* most statements of a source text in SpecImport
MaxImports == 3

\* trait height { high, low }      class K encodes (nope) { }
DraftSource ==
  << TraitStmt("height", <<Member(<<"high">>, FALSE), Member(<<"low">>, FALSE)>>),
     ClassStmt("K", <<"nope">>, <<>>) >>

\* lang ON: Old N      @ 1
FamilySource == << LanguageStmt("ON", "Old N", Null), MilestoneStmt(Instant(1), Null) >>

\* compileStatement for the statement kinds of a library
compileLibraryStatement(S, stmt) ==
  IF stmt.kind = "language" THEN compileLanguage(S, stmt)
  ELSE IF stmt.kind = "milestone" THEN compileMilestone(S, stmt)
  ELSE compileInventoryStatement(S, stmt)

\* the loop of compileModule over the first n statements of a library source
RECURSIVE compileLibrary(_, _)
compileLibrary(source, n) ==
  IF n = 0 THEN NewState
  ELSE Bind(compileLibrary(source, n - 1), LAMBDA S :
         Bind([S EXCEPT !.ctx.stmt = @ + 1], LAMBDA S1 :
           compileLibraryStatement(S1, source[n])))

\* MockResolver.resolve(sourceName): the resolver holds the inventory as
\* @core/ipa, the draft as @core/draft and the family as @core/family, and
\* compiles what it is asked for
resolve(sourceName) ==
  IF sourceName = "@core/ipa"
    THEN [ok |-> TRUE, module |-> compileLibrary(InventorySource, Len(InventorySource)).module,
          error |-> Null]
  ELSE IF sourceName = "@core/draft"
    THEN [ok |-> TRUE, module |-> compileLibrary(DraftSource, Len(DraftSource)).module,
          error |-> Null]
  ELSE IF sourceName = "@core/family"
    THEN [ok |-> TRUE, module |-> compileLibrary(FamilySource, Len(FamilySource)).module,
          error |-> Null]
  ELSE [ok |-> FALSE, module |-> NewState.module, error |-> "No source is defined with this name"]

ImportStmt(names, path) == [kind |-> "import", names |-> names, path |-> path]

\* import * from @core/ipa            import { *, C } from @core/ipa
\* import { V, * } from @core/ipa     import { C, S } from @core/ipa
\* import { voicing, nope } from @core/ipa
\* import * from @core/draft          import { T } from @core/none
\* import { ON } from @core/family
ImportStmts ==
  { ImportStmt(<<"*">>, "@core/ipa"), ImportStmt(<<"*", "C">>, "@core/ipa"),
    ImportStmt(<<"V", "*">>, "@core/ipa"), ImportStmt(<<"C", "S">>, "@core/ipa"),
    ImportStmt(<<"voicing", "nope">>, "@core/ipa"),
    ImportStmt(<<"*">>, "@core/draft"), ImportStmt(<<"T">>, "@core/none"),
    ImportStmt(<<"ON">>, "@core/family") }

InitImport ==
  /\ module = NewState.module
  /\ ctx = NewState.ctx
  /\ thrown = Null
  /\ out = [op |-> "none"]
  /\ EngineIdle

CompileImport(stmt) ==
  /\ thrown = Null
  /\ ctx.stmt < MaxImports
  /\ \E res \in {resolve(stmt.path)} : Becomes(compileImport(AtNextStatement, stmt, res))
  /\ UNCHANGED <<engineVars, out>>

\* trait voicing { tense, lax }      series S = { }
LocalStmts ==
  { TraitStmt("voicing", <<Member(<<"tense">>, FALSE), Member(<<"lax">>, FALSE)>>),
    ListSeries("S", <<>>) }

\* a trait, class or series statement of the source text itself
CompileLocal(stmt) ==
  /\ thrown = Null
  /\ ctx.stmt < MaxImports
  /\ Becomes(compileInventoryStatement(AtNextStatement, stmt))
  /\ UNCHANGED <<engineVars, out>>

NextImport ==
  \/ \E stmt \in ImportStmts : CompileImport(stmt)
  \/ \E stmt \in LocalStmts : CompileLocal(stmt)

SpecImport == InitImport /\ [][NextImport]_vars

\* the module m holds the entity under its name
Holds(m, entity) ==
  \E i \in 1..Len(getEntities(m)) : getEntities(m)[i] = entity

\* the statement lists the wildcard together with named imports
WildcardAndNames(stmt) == InSeq("*", stmt.names) /\ Len(stmt.names) > 1

NamedBy(stmt, from, entity) ==
  \/ InSeq(entity.key, stmt.names)
  \/ /\ entity.kind = "trait"
     /\ \E c \in 1..Len(from.classes) :
          InSeq(from.classes[c].name, stmt.names) /\ InSeq(entity.key, from.classes[c].encodes)

ImportedLanguages(stmt, from) ==
  {from.languages[i].id : i \in {j \in 1..Len(from.languages) :
     InSeq(from.languages[j].id, stmt.names) \/ stmt.names = <<"*">>}}

\* the milestones that the milestone statements of @core/family declare
FamilyMilestones == {[starts |-> 1, ends |-> Infinity, language |-> "ON"]}

\* C26: an import statement that imports a language leaves every milestone of
\* that language in module.milestones (added unless one with the same starts,
\* ends and language was there), throws nothing, and module.milestones never
\* holds two milestones with equal (starts, ends, language).
C26_LanguageMilestonesImported ==
  [][ \A stmt \in ImportStmts :
        (/\ CompileImport(stmt)
         /\ resolve(stmt.path).ok
         /\ ImportedLanguages(stmt, resolve(stmt.path).module) # {})
        => /\ thrown' = Null
           /\ \A milestone \in FamilyMilestones :
                milestone.language \in ImportedLanguages(stmt, resolve(stmt.path).module) =>
                  \E i \in 1..Len(module'.milestones) : module'.milestones[i] = milestone
           /\ \A i, j \in 1..Len(module'.milestones) :
                i # j => module'.milestones[i] # module'.milestones[j] ]_vars

\* the maps of a module, each with the field that is its key
ModuleMaps == {"languages", "traits", "classes", "series", "words"}

\* every binding of the map `before` is a binding of the map `after`
BindingsKept(before, after) ==
  \A i \in 1..Len(before) : \E j \in 1..Len(after) : after[j] = before[i]

\* C30: no statement rebinds a name that is bound in module.languages,
\* module.traits, module.classes, module.series or module.words: after a local
\* declaration and after an import statement, every name bound before is
\* bound to the same entity.
C30_FirstBindingKept ==
  [][ \A map \in ModuleMaps : BindingsKept(module[map], module'[map]) ]_vars

\* C30, local half: a trait or series statement of the source text itself
\* leaves every binding in place.
C30_LocalKeepsBinding ==
  [][ \A stmt \in LocalStmts :
        CompileLocal(stmt) =>
          \A map \in ModuleMaps : BindingsKept(module[map], module'[map]) ]_vars

\* ------------------------------------------------------------------------
\* SpecCycle: compileModule with a MockResolver that compiles the imported
\* source on demand.  The driver variables are those of the running
\* compileModule; out holds the resolver's sources, the name of the source
\* being compiled and the stack of the suspended callers, each [name, S] with
\* S the caller's driver state at its import statement.
\* ------------------------------------------------------------------------

\* most import statements of the source @x/a
MaxPaths == 2

\* deepest nesting of compileModule calls that is followed
MaxDepth == 4

\* the paths an import statement names; the resolver has no source @x/none
Paths == {"@x/a", "@x/b", "@core/draft", "@x/none"}

\* a source text of wildcard imports, one per path
ImportsOf(paths) == [i \in 1..Len(paths) |-> ImportStmt(<<"*">>, paths[i])]

\* a variant that refuses a source that is being compiled
resolveUnlessActive(r, sourceName) ==
  IF sourceName \notin DOMAIN r.sources
    THEN [ok |-> FALSE, error |-> "No source is defined with this name"]
  ELSE IF sourceName = r.name \/ \E i \in 1..Len(r.stack) : r.stack[i].name = sourceName
    THEN [ok |-> FALSE, error |-> "Import cycle"]
  ELSE [ok |-> TRUE, error |-> Null]

\* MockResolver.resolve(sourceName) up to its call of compileModule: ok says
\* that the source exists and compileModule is called for it
resolveOnDemand(r, sourceName) ==
  IF sourceName \notin DOMAIN r.sources
    THEN [ok |-> FALSE, error |-> "No source is defined with this name"]
    ELSE [ok |-> TRUE, error |-> Null]

\* new MockResolver(sources) and compileModule(sources.get("@x/a"), "@x/a", resolver)
InitCycle ==
  \E a \in SeqsUpTo(Paths, MaxPaths), b \in SeqsUpTo(Paths, 1) :
    /\ out = [op |-> "compile",
              sources |-> ("@x/a" :> ImportsOf(a)) @@ ("@x/b" :> ImportsOf(b))
                            @@ ("@core/draft" :> DraftSource),
              name |-> "@x/a", stack |-> <<>>, returned |-> FALSE]
    /\ module = NewState.module
    /\ ctx = NewState.ctx
    /\ thrown = Null
    /\ EngineIdle

\* the statement the loop of the running compileModule takes next
HasNextStatement == ctx.stmt < Len(out.sources[out.name])

NextStatement == out.sources[out.name][ctx.stmt + 1]

\* a trait, class or series statement of the running source
CompileLocalStatement ==
  /\ ~out.returned /\ thrown = Null
  /\ HasNextStatement
  /\ NextStatement.kind # "import"
  /\ Becomes(compileInventoryStatement(AtNextStatement, NextStatement))
  /\ UNCHANGED <<engineVars, out>>

\* compileImport whose resolver has no such source: the error is recorded
ImportMissing ==
  /\ ~out.returned /\ thrown = Null
  /\ HasNextStatement
  /\ NextStatement.kind = "import"
  /\ \E res \in {resolveOnDemand(out, NextStatement.path)} :
       /\ ~res.ok
       /\ Becomes(compileImport(AtNextStatement, NextStatement,
                                [ok |-> FALSE, module |-> NewState.module, error |-> res.error]))
  /\ UNCHANGED <<engineVars, out>>

\* compileImport calls the resolver, which calls compileModule for the source:
\* the caller waits at its import statement
CallCompileModule ==
  /\ ~out.returned /\ thrown = Null
  /\ HasNextStatement
  /\ NextStatement.kind = "import"
  /\ Len(out.stack) + 1 < MaxDepth
  /\ resolveOnDemand(out, NextStatement.path).ok
  /\ out' = [out EXCEPT !.name = NextStatement.path,
                         !.stack = Append(@, [name |-> out.name, S |-> AtNextStatement])]
  /\ Becomes(NewState)
  /\ UNCHANGED engineVars

\* the called compileModule returns its Module and the caller's compileImport
\* goes on with it
ReturnToImport ==
  /\ ~out.returned /\ thrown = Null
  /\ ~HasNextStatement
  /\ Len(out.stack) > 0
  /\ \E caller \in {out.stack[Len(out.stack)]} :
       /\ out' = [out EXCEPT !.name = caller.name,
                              !.stack = SubSeq(@, 1, Len(@) - 1)]
       /\ Becomes(compileImport(caller.S, out.sources[caller.name][caller.S.ctx.stmt],
                                [ok |-> TRUE, module |-> module, error |-> Null]))
  /\ UNCHANGED engineVars

\* the outermost compileModule returns its Module
ReturnModule ==
  /\ ~out.returned /\ thrown = Null
  /\ ~HasNextStatement
  /\ Len(out.stack) = 0
  /\ out' = [out EXCEPT !.returned = TRUE]
  /\ UNCHANGED <<engineVars, driverVars>>

NextCycle ==
  \/ CompileLocalStatement
  \/ ImportMissing
  \/ CallCompileModule
  \/ ReturnToImport
  \/ ReturnModule

\* a running call goes on: JavaScript runs the compiler to its end
SpecCycle == InitCycle /\ [][NextCycle]_vars /\ WF_vars(NextCycle)

\* the sources that the source `name` imports, those the resolver has
ImportedBy(sources, name) ==
  {sources[name][i].path : i \in {j \in 1..Len(sources[name]) : sources[name][j].kind = "import"}}
    \cap DOMAIN sources

\* the sources reached from the set `names` by following imports at least once
RECURSIVE ReachedFrom(_, _, _)
ReachedFrom(sources, names, n) ==
  IF n = 0 THEN {}
  ELSE LET next == UNION {ImportedBy(sources, name) : name \in names}
       IN next \cup ReachedFrom(sources, next, n - 1)

\* the import graph has a cycle that compiling @x/a runs into
Cyclic ==
  \E name \in {"@x/a"} \cup ReachedFrom(out.sources, {"@x/a"}, Cardinality(DOMAIN out.sources)) :
    name \in ReachedFrom(out.sources, {name}, Cardinality(DOMAIN out.sources))

\* C25: compileModule does not detect import cycles.  When @x/a imports
\* itself, directly or through @x/b, the outermost compileModule never returns
\* and the nesting of compileModule calls reaches every depth that is
\* followed; when the import graph is acyclic the outermost compileModule
\* returns its Module.
C25_CyclesNeverReturn ==
  /\ [](out.returned => ~Cyclic)
  /\ (Cyclic ~> (Len(out.stack) + 1 = MaxDepth))
  /\ (~Cyclic ~> out.returned)

\* @x/a imports @x/b and @x/b imports @x/a: the calls nest a, b, a, b, ...
C25_Witness ==
  /\ Cyclic
  /\ ~out.returned
  /\ Len(out.stack) + 1 = MaxDepth
  /\ out.stack[1].name = "@x/a"
  /\ out.stack[2].name = "@x/b"
  /\ out.stack[3].name = "@x/a"
  /\ out.name = "@x/b"

\* @x/a imports @core/draft through @x/b: the graph is acyclic, the outermost
\* compileModule has returned and its module holds the draft's trait
C25_WitnessAcyclic ==
  /\ ~Cyclic
  /\ out.returned
  /\ "@x/b" \in ImportedBy(out.sources, "@x/a")
  /\ "@core/draft" \in ImportedBy(out.sources, "@x/b")
  /\ Len(module.traits) = 1

\* ------------------------------------------------------------------------
\* The phonology the engine runs on: a compiled inventory
\*   trait voicing { voiced, *unvoiced }     trait place { velar, palatal, bilabial }
\*   trait rounding { unrounded, rounded }
\*   class C encodes (voicing place) { k, g, c }   class V encodes (rounding) { a, o }
\*   series S = { k, c }                     series T = [C +voiced]
\* ------------------------------------------------------------------------

NoFeature == "undefined"

\* Trait.features, in declaration order
TraitFeatures ==
  [ voicing |-> <<"voiced", "unvoiced">>,
    place |-> <<"velar", "palatal", "bilabial">>,
    rounding |-> <<"unrounded", "rounded">> ]

\* Trait.default
TraitDefault ==
  [ voicing |-> "unvoiced", place |-> "velar", rounding |-> "unrounded" ]

TraitNames == DOMAIN TraitFeatures

\* Feature.trait
FeatureTrait(f) ==
  CHOOSE t \in TraitNames : \E i \in 1..Len(TraitFeatures[t]) : TraitFeatures[t][i] = f

\* Phoneme.features, by glyph (phonemes are identified by their glyph)
PhonemeFeatures ==
  [ k |-> [voicing |-> "unvoiced", place |-> "velar"],
    g |-> [voicing |-> "voiced", place |-> "velar"],
    c |-> [voicing |-> "unvoiced", place |-> "palatal"],
    a |-> [rounding |-> "unrounded"],
    o |-> [rounding |-> "rounded"] ]

\* Phoneme.class
PhonemeClass == [k |-> "C", g |-> "C", c |-> "C", a |-> "V", o |-> "V"]

\* Class.phonemes, in declaration order
ClassPhonemes == [C |-> <<"k", "g", "c">>, V |-> <<"a", "o">>]

Glyphs == DOMAIN PhonemeFeatures

\* Map.get on a phoneme's feature map
featureOf(ph, trait) ==
  IF trait \in DOMAIN PhonemeFeatures[ph] THEN PhonemeFeatures[ph][trait] ELSE NoFeature

P(g) == [kind |-> "phoneme", glyph |-> g, baseClass |-> Null, modifiers |-> <<>>]

Cat(bc, mods) == [kind |-> "category", glyph |-> Null, baseClass |-> bc, modifiers |-> mods]

Pos(f) == [feature |-> f, sign |-> "positive"]

Neg(f) == [feature |-> f, sign |-> "negative"]

\* the series of the inventory: a list series and a category series
SeriesTable ==
  [ S |-> [seriesKind |-> "list", phonemes |-> <<"k", "c">>,
           baseClass |-> Null, modifiers |-> <<>>],
    T |-> [seriesKind |-> "category", phonemes |-> <<>>,
           baseClass |-> "C", modifiers |-> <<Pos("voiced")>>] ]

\* a variant that admits only phonemes that have a feature of the modifier's trait
modifiersAdmitDefinedOnly(mods, ph) ==
  \A i \in 1..Len(mods) :
    LET featMatches == featureOf(ph, FeatureTrait(mods[i].feature)) = mods[i].feature
    IN /\ featureOf(ph, FeatureTrait(mods[i].feature)) # NoFeature
       /\ ~(~featMatches /\ mods[i].sign = "positive")
       /\ ~(featMatches /\ mods[i].sign = "negative")

\* the loop over cat.modifiers: every modifier admits the phoneme
modifiersAdmit(mods, ph) ==
  \A i \in 1..Len(mods) :
    LET featMatches == featureOf(ph, FeatureTrait(mods[i].feature)) = mods[i].feature
    IN /\ ~(~featMatches /\ mods[i].sign = "positive")
       /\ ~(featMatches /\ mods[i].sign = "negative")

RECURSIVE categoryIncludes(_, _)
categoryIncludes(cat, ph) ==
  /\ cat.baseClass # Null =>
       IF cat.baseClass \in DOMAIN ClassPhonemes
         THEN InSeq(ph, ClassPhonemes[cat.baseClass])
         ELSE LET bc == SeriesTable[cat.baseClass]
              IN IF bc.seriesKind = "list"
                   THEN InSeq(ph, bc.phonemes)
                   ELSE categoryIncludes(bc, ph)
  /\ modifiersAdmit(cat.modifiers, ph)

\* ------------------------------------------------------------------------
\* Sound changes (src/sound-change.ts)
\*   source      [kind: "empty" | "pattern", segments]
\*   target      [kind: "empty" | "phonemes" | "modification",
\*                phonemes: the address of the target's phoneme array, mods]
\*   environment [kind: "null"] or
\*               [kind: "environment", before, after, anchorStart, anchorEnd]
\*   tag         [start, end, language, index]
\* A range is [start, end), 0-based as in the code.
\* ------------------------------------------------------------------------

\* a segment or environment element matches a phoneme
elementMatches(seg, ph) ==
  \/ seg.kind = "phoneme" /\ ph = seg.glyph
  \/ seg.kind = "category" /\ categoryIncludes(seg, ph)

\* a variant without the gap after the last phoneme
findSourceInNoFinalGap(sc, phonemes) ==
  IF sc.source.kind = "empty"
    THEN [i \in 1..Len(phonemes) |-> [start |-> i - 1, end |-> i - 1]]
    ELSE LET k == Len(sc.source.segments)
             matchAt(i) ==
               \A j \in 0..(k - 1) :
                 /\ i + j < Len(phonemes)
                 /\ elementMatches(sc.source.segments[j + 1], phonemes[i + j + 1])
             starts == {i \in 0..(Len(phonemes) - k) : matchAt(i)}
             RECURSIVE collect(_)
             collect(i) ==
               IF i > Len(phonemes) - k THEN <<>>
               ELSE (IF i \in starts THEN <<[start |-> i, end |-> i + k]>> ELSE <<>>)
                    \o collect(i + 1)
         IN collect(0)

findSourceIn(sc, phonemes) ==
  IF sc.source.kind = "empty"
    THEN [i \in 1..(Len(phonemes) + 1) |-> [start |-> i - 1, end |-> i - 1]]
    ELSE LET k == Len(sc.source.segments)
             matchAt(i) ==
               \A j \in 0..(k - 1) :
                 /\ i + j < Len(phonemes)
                 /\ elementMatches(sc.source.segments[j + 1], phonemes[i + j + 1])
             starts == {i \in 0..(Len(phonemes) - k) : matchAt(i)}
             RECURSIVE collect(_)
             collect(i) ==
               IF i > Len(phonemes) - k THEN <<>>
               ELSE (IF i \in starts THEN <<[start |-> i, end |-> i + k]>> ELSE <<>>)
                    \o collect(i + 1)
         IN collect(0)

\* a variant that reads the before elements from the left, first element nearest
testEnvironmentLeftJustified(sc, phonemes, range) ==
  LET env == sc.environment
  IN IF env.kind = "null" THEN TRUE
     ELSE
       /\ ~(env.anchorStart /\ range.start - Len(env.before) # 0)
       /\ ~(env.anchorEnd /\ range.end + Len(env.after) # Len(phonemes))
       /\ \A i \in 0..(Len(env.before) - 1) :
            /\ ~(range.start - i - 1 < 0)
            /\ elementMatches(env.before[i + 1], phonemes[range.start - i])
       /\ \A i \in 0..(Len(env.after) - 1) :
            /\ ~(range.end + i >= Len(phonemes))
            /\ elementMatches(env.after[i + 1], phonemes[range.end + i + 1])

testEnvironment(sc, phonemes, range) ==
  LET env == sc.environment
  IN IF env.kind = "null" THEN TRUE
     ELSE
       /\ ~(env.anchorStart /\ range.start - Len(env.before) # 0)
       /\ ~(env.anchorEnd /\ range.end + Len(env.after) # Len(phonemes))
       /\ \A i \in 0..(Len(env.before) - 1) :
            /\ ~(range.start - i - 1 < 0)
            /\ elementMatches(env.before[Len(env.before) - i], phonemes[range.start - i])
       /\ \A i \in 0..(Len(env.after) - 1) :
            /\ ~(range.end + i >= Len(phonemes))
            /\ elementMatches(env.after[i + 1], phonemes[range.end + i + 1])

findMatchesIn(sc, phonemes) ==
  SelectSeq(findSourceIn(sc, phonemes), LAMBDA range : testEnvironment(sc, phonemes, range))

\* a variant with closed windows
tagsOverlapClosed(a, b) == a.start <= b.end /\ b.start <= a.end

tagsOverlap(a, b) == a.start < b.end /\ b.start < a.end

\* appliesTo(word), given the word's tag and the contents of its phoneme array
appliesTo(sc, wordTag, phonemes) ==
  /\ tagsOverlap(sc.tag, wordTag)
  /\ Len(findMatchesIn(sc, phonemes)) > 0

\* a variant in which a negative modifier always gives the trait's default
newFeatAlwaysDefault(mod) ==
  IF mod.sign = "positive" THEN mod.feature ELSE TraitDefault[FeatureTrait(mod.feature)]

\* the feature a modifier of a modification target gives its trait
newFeat(mod) ==
  LET trait == FeatureTrait(mod.feature)
      others == SelectSeq(TraitFeatures[trait], LAMBDA feat : feat # mod.feature)
  IN IF mod.sign = "positive" THEN mod.feature
     ELSE IF TraitDefault[trait] = mod.feature
       THEN (IF Len(others) > 0 THEN others[1] ELSE NoFeature)
       ELSE TraitDefault[trait]

\* newFeats after the loop over the modifiers, starting from a copy of ph.features
RECURSIVE modifyFeatures(_, _, _, _)
modifyFeatures(ph, mods, i, newFeats) ==
  IF i > Len(mods) THEN newFeats
  ELSE LET trait == FeatureTrait(mods[i].feature)
       IN IF trait \notin DOMAIN PhonemeFeatures[ph]
            THEN modifyFeatures(ph, mods, i + 1, newFeats)
            ELSE modifyFeatures(ph, mods, i + 1, [newFeats EXCEPT ![trait] = newFeat(mods[i])])

\* ph.class.phonemes.filter(...) of a modification target
candidates(ph, newFeats) ==
  SelectSeq(ClassPhonemes[PhonemeClass[ph]],
            LAMBDA p : \A trait \in DOMAIN newFeats : featureOf(p, trait) = newFeats[trait])

\* a variant that keeps the phoneme without pushing the warning
RECURSIVE resolveModificationSilent(_, _, _)
resolveModificationSilent(sc, source, i) ==
  IF i > Len(source) THEN [phonemes |-> <<>>, warnings |-> <<>>]
  ELSE LET ph == source[i]
           cands == candidates(ph, modifyFeatures(ph, sc.target.mods, 1, PhonemeFeatures[ph]))
           rest == resolveModificationSilent(sc, source, i + 1)
       IN [phonemes |-> <<IF Len(cands) = 0 THEN ph ELSE cands[1]>> \o rest.phonemes,
           warnings |-> rest.warnings]

\* resolveTarget(source, ctx): the phonemes returned and the warnings pushed to
\* ctx.warnings. `arrays` is the heap of phoneme arrays: a "phonemes" target
\* returns its own array.
RECURSIVE resolveModification(_, _, _)
resolveModification(sc, source, i) ==
  IF i > Len(source) THEN [phonemes |-> <<>>, warnings |-> <<>>]
  ELSE LET ph == source[i]
           cands == candidates(ph, modifyFeatures(ph, sc.target.mods, 1, PhonemeFeatures[ph]))
           rest == resolveModification(sc, source, i + 1)
       IN IF Len(cands) = 0
            THEN [phonemes |-> <<ph>> \o rest.phonemes,
                  warnings |-> <<sc.definitionSite>> \o rest.warnings]
            ELSE [phonemes |-> <<cands[1]>> \o rest.phonemes, warnings |-> rest.warnings]

resolveTarget(sc, source, arrays) ==
  IF sc.target.kind = "empty" THEN [phonemes |-> <<>>, warnings |-> <<>>]
  ELSE IF sc.target.kind = "modification" THEN resolveModification(sc, source, 1)
  ELSE [phonemes |-> arrays[sc.target.phonemes], warnings |-> <<>>]

\* ------------------------------------------------------------------------
\* The heap.  H = [arrays, words, warnings]:
\*   arrays   the Phoneme[] arrays, by address (word.phonemes, target.phonemes)
\*   words    the Word objects, by address:
\*            [gloss, phonemes: address, tag,
\*             etymology: pairs <<address of the previous word, sound change>>]
\*   warnings ctx.warnings of the running snapshot
\* ------------------------------------------------------------------------

\* a variant without the copy: the array itself
sameArray(H, addr) == [H |-> H, addr |-> addr]

\* const phonemes = [...word.phonemes]: a fresh array holding a copy
copyOf(H, addr) ==
  [H |-> [H EXCEPT !.arrays = Append(@, H.arrays[addr])], addr |-> Len(H.arrays) + 1]

\* the loop of applyTo over the ranges, from range i on, writing the array at addr
RECURSIVE spliceRanges(_, _, _, _, _, _)
spliceRanges(sc, ranges, i, H, addr, offset) ==
  IF i > Len(ranges) THEN H
  ELSE LET range == ranges[i]
           len == range.end - range.start
           source == slice(H.arrays[addr], range.start, range.end)
       IN Bind(resolveTarget(sc, source, H.arrays), LAMBDA target :
            Bind([H EXCEPT !.arrays[addr] = splice(@, range.start + offset, len, target.phonemes),
                           !.warnings = @ \o target.warnings], LAMBDA H1 :
              Bind(offset + Len(target.phonemes) - Len(source), LAMBDA offset1 :
                spliceRanges(sc, ranges, i + 1, H1, addr, offset1))))

\* applyTo(word, ctx): the heap afterwards and the address of the array returned
applyTo(sc, H, w) ==
  Bind(findMatchesIn(sc, H.arrays[H.words[w].phonemes]), LAMBDA ranges :
    Bind(copyOf(H, H.words[w].phonemes), LAMBDA phonemes :
      [H |-> spliceRanges(sc, ranges, 1, phonemes.H, phonemes.addr, 0),
       addr |-> phonemes.addr]))

\* a variant that hands the etymology on as it was
Word_applyNoEtymology(H, w, sc) ==
  LET this == H.words[w]
  IN IF ~appliesTo(sc, this.tag, H.arrays[this.phonemes]) THEN [H |-> H, addr |-> w]
     ELSE Bind(applyTo(sc, H, w), LAMBDA r :
            LET new == [gloss |-> this.gloss, phonemes |-> r.addr, tag |-> this.tag,
                        etymology |-> this.etymology]
            IN [H |-> [r.H EXCEPT !.words = Append(@, new)], addr |-> Len(r.H.words) + 1])

\* Word.apply(sc, ctx) on the word at address w (src/word.ts): the heap afterwards
\* and the address of the word returned
Word_apply(H, w, sc) ==
  LET this == H.words[w]
  IN IF ~appliesTo(sc, this.tag, H.arrays[this.phonemes]) THEN [H |-> H, addr |-> w]
     ELSE Bind(applyTo(sc, H, w), LAMBDA r :
            LET new == [gloss |-> this.gloss, phonemes |-> r.addr, tag |-> this.tag,
                        etymology |-> Append(this.etymology, <<w, sc>>)]
            IN [H |-> [r.H EXCEPT !.words = Append(@, new)], addr |-> Len(r.H.words) + 1])

\* ------------------------------------------------------------------------
\* Languages and tags (src/diachronics.ts).  The family the engine specs use:
\*   lang ON    lang EI < ON    lang IC < EI    lang FA < ON
\* ------------------------------------------------------------------------

\* Language.parent, by language id
LanguageParent == [ON |-> Null, EI |-> "ON", IC |-> "EI", FA |-> "ON"]

LanguageIds == DOMAIN LanguageParent

\* a variant that looks at the language and its parent only
isChildLanguageOneLevel(child, maybeParent) ==
  child = maybeParent \/ LanguageParent[child] = maybeParent

RECURSIVE isChildLanguage(_, _)
isChildLanguage(child, maybeParent) ==
  IF child = maybeParent THEN TRUE
  ELSE IF LanguageParent[child] = Null THEN FALSE
  ELSE IF LanguageParent[child] = maybeParent THEN TRUE
  ELSE isChildLanguage(LanguageParent[child], maybeParent)

\* filterByTag(items, language, time) over Word addresses
filterByTag(H, items, language, time) ==
  SelectSeq(
    SelectSeq(items, LAMBDA word : isChildLanguage(language, H.words[word].tag.language)),
    LAMBDA word : time >= H.words[word].tag.start /\ H.words[word].tag.end >= time)

\* a variant that compares the declaration indices only
sortByTagIndexOnly(a, b) ==
  IF a.tag.index < b.tag.index THEN -1
  ELSE IF b.tag.index < a.tag.index THEN 1
  ELSE 0

sortByTag(a, b) ==
  IF a.tag.start < b.tag.start THEN -1
  ELSE IF b.tag.start < a.tag.start THEN 1
  ELSE IF a.tag.index < b.tag.index THEN -1
  ELSE 0

\* ------------------------------------------------------------------------
\* Module.snapshot (src/module.ts)
\* ------------------------------------------------------------------------

\* soundChanges.reduce((w, sc) => w.apply(sc, ctx), word), from change i on
RECURSIVE reduceChanges(_, _, _, _)
reduceChanges(H, w, soundChanges, i) ==
  IF i > Len(soundChanges) THEN [H |-> H, addr |-> w]
  ELSE Bind(Word_apply(H, w, soundChanges[i]), LAMBDA r :
         reduceChanges(r.H, r.addr, soundChanges, i + 1))

\* words.map(word => soundChanges.reduce(...)), from word j on
RECURSIVE mapWords(_, _, _, _)
mapWords(H, words, soundChanges, j) ==
  IF j > Len(words) THEN [H |-> H, words |-> <<>>]
  ELSE Bind(reduceChanges(H, words[j], soundChanges, 1), LAMBDA r :
         Bind(mapWords(r.H, words, soundChanges, j + 1), LAMBDA rest :
           [H |-> rest.H, words |-> <<r.addr>> \o rest.words]))

\* the sound changes a snapshot at `time` folds, in the order it folds them
selectedChanges(changes, time) ==
  toSorted(SelectSeq(changes, LAMBDA sc : sc.tag.start <= time), sortByTag)

\* snapshot(language, time) on heap H (whose warnings are the fresh ctx.warnings):
\* the heap afterwards and the Snapshot returned
snapshot(H, words, changes, language, time) ==
  Bind(selectedChanges(changes, time), LAMBDA soundChanges :
    Bind(filterByTag(H, words, language, time), LAMBDA selected :
      Bind(mapWords(H, selected, soundChanges, 1), LAMBDA r :
        [H |-> r.H,
         snapshot |-> [op |-> "snapshot", language |-> language, time |-> time,
                       errors |-> <<>>, warnings |-> r.H.warnings, ok |-> TRUE,
                       words |-> r.words, soundChanges |-> soundChanges]])))

\* ------------------------------------------------------------------------
\* SpecApply: one word, one sound change, one call of Word.apply
\* ------------------------------------------------------------------------

\* targets as written in a rule; `literal` is the content of the phoneme array
\* that the compiled target holds
EmptyTarget == [kind |-> "empty", literal |-> <<>>, mods |-> <<>>]

PhonemesTarget(phs) == [kind |-> "phonemes", literal |-> phs, mods |-> <<>>]

Modification(mods) == [kind |-> "modification", literal |-> <<>>, mods |-> mods]

Rule(source, target, environment) ==
  [source |-> source, target |-> target, environment |-> environment]

\* new SoundChange(...): the rule with its target array at address addr (0: none)
SoundChange(rule, addr, tag, site) ==
  [source |-> rule.source,
   target |-> [kind |-> rule.target.kind, phonemes |-> addr, mods |-> rule.target.mods],
   environment |-> rule.environment, tag |-> tag, definitionSite |-> site]

Tag(start, end, language, index) ==
  [start |-> start, end |-> end, language |-> language, index |-> index]

\* the rules SpecApply draws from
ApplyRules ==
  { Rule(Pattern(<<P("k")>>), EmptyTarget, NoEnvironment),
    Rule(Pattern(<<P("k")>>), PhonemesTarget(<<"c">>), NoEnvironment),
    Rule(Pattern(<<P("k")>>), PhonemesTarget(<<"c", "a">>), NoEnvironment),
    Rule(Pattern(<<P("k"), P("a")>>), PhonemesTarget(<<"c">>), NoEnvironment),
    Rule(Pattern(<<P("k"), P("k")>>), PhonemesTarget(<<"c">>), NoEnvironment),
    Rule(Pattern(<<P("k"), P("k")>>), EmptyTarget, NoEnvironment),
    Rule(EmptySource, PhonemesTarget(<<"a">>), NoEnvironment),
    Rule(EmptySource, PhonemesTarget(<<"c", "a">>), NoEnvironment),
    Rule(EmptySource, PhonemesTarget(<<"a">>), Env(<<P("k")>>, <<>>, FALSE, FALSE)),
    Rule(Pattern(<<Cat("C", <<>>)>>), EmptyTarget, NoEnvironment),
    Rule(Pattern(<<Cat("C", <<Pos("velar")>>)>>), Modification(<<Pos("palatal")>>), NoEnvironment),
    Rule(Pattern(<<Cat("C", <<>>)>>), Modification(<<Pos("voiced")>>), NoEnvironment),
    Rule(Pattern(<<Cat(Null, <<>>)>>), Modification(<<Neg("voiced")>>), NoEnvironment),
    Rule(Pattern(<<Cat(Null, <<>>)>>), Modification(<<Neg("velar")>>), NoEnvironment),
    Rule(Pattern(<<Cat("S", <<>>), Cat("T", <<>>)>>), Modification(<<Neg("palatal")>>), NoEnvironment),
    Rule(Pattern(<<Cat(Null, <<Pos("velar")>>)>>), EmptyTarget, NoEnvironment),
    Rule(Pattern(<<Cat(Null, <<Neg("velar")>>)>>), EmptyTarget, NoEnvironment),
    Rule(Pattern(<<Cat(Null, <<Pos("voiced")>>)>>), EmptyTarget, NoEnvironment),
    Rule(Pattern(<<Cat(Null, <<Neg("voiced")>>)>>), EmptyTarget, NoEnvironment),
    Rule(Pattern(<<P("k")>>), EmptyTarget, Env(<<>>, <<>>, FALSE, TRUE)),
    Rule(Pattern(<<P("k")>>), PhonemesTarget(<<"c">>), Env(<<>>, <<>>, TRUE, FALSE)),
    Rule(Pattern(<<P("k")>>), PhonemesTarget(<<"g">>), Env(<<P("a")>>, <<>>, FALSE, FALSE)),
    Rule(Pattern(<<P("k")>>), PhonemesTarget(<<"g">>), Env(<<>>, <<P("a")>>, FALSE, TRUE)),
    Rule(Pattern(<<Cat("C", <<>>)>>), EmptyTarget,
         Env(<<P("g"), Cat("V", <<>>)>>, <<Cat("V", <<Neg("rounded")>>)>>, TRUE, FALSE)) }

\* the phonemes SpecApply builds its words from
ApplyGlyphs == {"k", "g", "c", "a"}

\* the time windows of the rule's tag; the word's tag is [2, Infinity)
ApplyWindows == {<<1, Infinity>>, <<1, 2>>}

InitApply ==
  \E phonemes \in SeqsUpTo(ApplyGlyphs, MaxLen), rule \in ApplyRules, win \in ApplyWindows :
    /\ heap = [arrays |-> IF rule.target.kind = "phonemes"
                            THEN <<phonemes, rule.target.literal>> ELSE <<phonemes>>,
               words |-> <<[gloss |-> "w", phonemes |-> 1, tag |-> Tag(2, Infinity, "ON", 0),
                            etymology |-> <<>>]>>,
               warnings |-> <<>>]
    /\ mWords = <<1>>
    /\ mChanges = <<SoundChange(rule, IF rule.target.kind = "phonemes" THEN 2 ELSE 0,
                                Tag(win[1], win[2], "ON", 1), 1)>>
    /\ out = [op |-> "none", word |-> 0, ret |-> 0]
    /\ DriverIdle

\* word.apply(sc, ctx) for the module's word and sound change
Apply ==
  /\ out.op = "none"
  /\ \E r \in {Word_apply(heap, mWords[1], mChanges[1])} :
       /\ heap' = r.H
       /\ out' = [op |-> "apply", word |-> mWords[1], ret |-> r.addr]
  /\ UNCHANGED <<mWords, mChanges, driverVars>>

NextApply == Apply

SpecApply == InitApply /\ [][NextApply]_vars

\* --- what the last Word.apply was given and what it returned ---

\* the last operation was a Word.apply in which the change applied
Applied == out.op = "apply" /\ out.ret # out.word

InputPhonemes == heap.arrays[heap.words[out.word].phonemes]

ReturnedPhonemes == heap.arrays[heap.words[out.ret].phonemes]

InputMatches == findMatchesIn(mChanges[1], InputPhonemes)

NonOverlapping(ranges) ==
  \A i, j \in 1..Len(ranges) : i < j => ranges[i].end <= ranges[j].start

\* the phonemes with every range replaced by the target resolved for the
\* phonemes of that range, and everything outside the ranges kept
Replaced(sc, phonemes, ranges) ==
  LET RECURSIVE from(_, _)
      from(i, pos) ==
        IF i > Len(ranges) THEN slice(phonemes, pos, Len(phonemes))
        ELSE slice(phonemes, pos, ranges[i].start)
             \o resolveTarget(sc, slice(phonemes, ranges[i].start, ranges[i].end),
                              heap.arrays).phonemes
             \o from(i + 1, ranges[i].end)
  IN from(1, 0)

\* C3: when the matches of the change in the word are pairwise non-overlapping,
\* applyTo returns the word's phonemes with every matched range replaced by its
\* resolved target and every other phoneme kept, in order.
C3_EveryMatchReplaced ==
  (Applied /\ NonOverlapping(InputMatches)) =>
    ReturnedPhonemes = Replaced(mChanges[1], InputPhonemes, InputMatches)

\* C14: Word.apply returns a new Word exactly when the tags of the change and
\* of the word overlap under the half-open test (change.start < word.end and
\* word.start < change.end) and at least one source match of the change in the
\* word passes the environment test; otherwise it returns the very same Word
\* and leaves the heap, the word's phonemes and etymology with it, as it was.
C14_AppliesOrSameWord ==
  [][ out'.op = "apply" =>
        LET word == heap.words[out'.word]
            change == mChanges[1]
        IN IF /\ change.tag.start < word.tag.end
              /\ word.tag.start < change.tag.end
              /\ Len(findMatchesIn(change, heap.arrays[word.phonemes])) > 0
             THEN /\ out'.ret # out'.word
                  /\ out'.ret > Len(heap.words)
             ELSE /\ out'.ret = out'.word
                  /\ heap' = heap ]_vars

\* the change ends at 2, where the word's window starts: it matches the word's
\* phonemes but does not apply, and Word.apply returned the word itself
C14_Witness ==
  /\ out.op = "apply"
  /\ out.ret = out.word
  /\ mChanges[1].tag.end = heap.words[out.word].tag.start
  /\ Len(InputMatches) > 0

\* the range [s, e) of the word passes the environment of the change: the
\* anchors hold, the context fits into the word, before matches
\* word[s-|before| .. s) and after matches word[e .. e+|after|), both read left
\* to right
EnvPasses(sc, word, range) ==
  LET env == sc.environment
      s == range.start
      e == range.end
  IN \/ env.kind = "null"
     \/ /\ env.anchorStart => s - Len(env.before) = 0
        /\ env.anchorEnd => e + Len(env.after) = Len(word)
        /\ s - Len(env.before) >= 0
        /\ e + Len(env.after) <= Len(word)
        /\ \A j \in 1..Len(env.before) : elementMatches(env.before[j], word[s - Len(env.before) + j])
        /\ \A j \in 1..Len(env.after) : elementMatches(env.after[j], word[e + j])

\* the rule  k > [] / _#
FinalKDeletion == Rule(Pattern(<<P("k")>>), EmptyTarget, Env(<<>>, <<>>, FALSE, TRUE))

\* C22: the matches of the change in the word are the candidate ranges of its
\* source that pass the environment: no environment, or both anchors hold, the
\* context does not run past an edge of the word and the before and after
\* elements match the phonemes next to the range, before right-justified.  So
\* k > [] / _#  in force applies iff the word ends in k and removes that k only.
C22_EnvironmentTest ==
  out.op = "apply" =>
    /\ InputMatches = SelectSeq(findSourceIn(mChanges[1], InputPhonemes),
                                LAMBDA range : EnvPasses(mChanges[1], InputPhonemes, range))
    /\ (/\ mChanges[1].source = FinalKDeletion.source
        /\ mChanges[1].target.kind = "empty"
        /\ mChanges[1].environment = FinalKDeletion.environment
        /\ mChanges[1].tag.end > heap.words[out.word].tag.start)
         => IF Len(InputPhonemes) > 0 /\ InputPhonemes[Len(InputPhonemes)] = "k"
              THEN ReturnedPhonemes = SubSeq(InputPhonemes, 1, Len(InputPhonemes) - 1)
              ELSE out.ret = out.word

\* [C] > [] / #g[V]_[V -rounded] on /gaka/: only the k, two phonemes after the
\* start of the word and before an unrounded vowel, passes and is removed
C22_Witness ==
  /\ Applied
  /\ mChanges[1].environment.kind = "environment"
  /\ Len(mChanges[1].environment.before) = 2
  /\ InputPhonemes = <<"g", "a", "k", "a">>
  /\ Len(findSourceIn(mChanges[1], InputPhonemes)) = 2
  /\ InputMatches = <<[start |-> 2, end |-> 3]>>
  /\ ReturnedPhonemes = <<"g", "a", "a">>

\* T, p1, T, p2, T, ..., pn, T: the target at every gap of the word
RECURSIVE AtEveryGap(_, _)
AtEveryGap(T, word) ==
  IF Len(word) = 0 THEN T ELSE T \o <<Head(word)>> \o AtEveryGap(T, Tail(word))

\* C24: for a change with an empty source, a literal target T and no
\* environment, the matches in a word P are the |P|+1 zero-width ranges at the
\* gaps 0..|P|, the change in force applies to every word, the empty one
\* included, and the word returned is P with T inserted at every gap: its
\* length is |P| + (|P|+1)*|T| and P's phonemes are in it in their order.
C24_InsertAtEveryGap ==
  (/\ out.op = "apply"
   /\ mChanges[1].source.kind = "empty"
   /\ mChanges[1].target.kind = "phonemes"
   /\ mChanges[1].environment.kind = "null")
    => LET T == heap.arrays[mChanges[1].target.phonemes]
       IN /\ InputMatches = [i \in 1..(Len(InputPhonemes) + 1) |-> [start |-> i - 1, end |-> i - 1]]
          /\ mChanges[1].tag.end > heap.words[out.word].tag.start =>
               /\ Applied
               /\ ReturnedPhonemes = AtEveryGap(T, InputPhonemes)
               /\ Len(ReturnedPhonemes) = Len(InputPhonemes) + (Len(InputPhonemes) + 1) * Len(T)
               /\ \A i \in 1..Len(InputPhonemes) :
                    ReturnedPhonemes[i * (Len(T) + 1)] = InputPhonemes[i]

\* [] > ca on /kg/ gives /cakcagca/
C24_Witness ==
  /\ Applied
  /\ mChanges[1].source.kind = "empty"
  /\ mChanges[1].environment.kind = "null"
  /\ InputPhonemes = <<"k", "g">>
  /\ ReturnedPhonemes = <<"c", "a", "k", "c", "a", "g", "c", "a">>

\* the source of the change is one category with no base class and one modifier
SingleModifierSource(sc) ==
  /\ sc.source.kind = "pattern"
  /\ Len(sc.source.segments) = 1
  /\ sc.source.segments[1].kind = "category"
  /\ sc.source.segments[1].baseClass = Null
  /\ Len(sc.source.segments[1].modifiers) = 1

\* the category with the sign of its modifier flipped: [-X] for [+X]
Flipped(cat) ==
  [cat EXCEPT !.modifiers[1].sign = IF @ = "positive" THEN "negative" ELSE "positive"]

\* the phoneme has the feature of the modifier
HasFeature(ph, mod) ==
  /\ FeatureTrait(mod.feature) \in DOMAIN PhonemeFeatures[ph]
  /\ PhonemeFeatures[ph][FeatureTrait(mod.feature)] = mod.feature

\* C19: category negation complement.  For a source [+X] or [-X] with no base
\* class, every phoneme, one without a feature of X's trait included, is in
\* the category iff it is not in the category of the opposite sign; [+X] holds
\* the phonemes whose feature is X.  So the matches of the change in the word
\* are the positions of the phonemes that the opposite category leaves out,
\* and a change in force applies iff the word has such a phoneme.
C19_NegationComplement ==
  (out.op = "apply" /\ SingleModifierSource(mChanges[1])) =>
    LET cat == mChanges[1].source.segments[1]
        mod == cat.modifiers[1]
        complement == {p \in 1..Len(InputPhonemes) :
                         ~categoryIncludes(Flipped(cat), InputPhonemes[p])}
    IN /\ \A ph \in Glyphs :
            /\ categoryIncludes(cat, ph) <=> ~categoryIncludes(Flipped(cat), ph)
            /\ categoryIncludes(cat, ph) <=> (HasFeature(ph, mod) <=> mod.sign = "positive")
       /\ mChanges[1].environment.kind = "null" =>
            /\ {InputMatches[r].start + 1 : r \in 1..Len(InputMatches)} = complement
            /\ mChanges[1].tag.end > heap.words[out.word].tag.start =>
                 (Applied <=> complement # {})

\* [-velar] > {} applied to /kac/: a has no place and c is palatal, both are
\* deleted and /k/ is left
C19_Witness ==
  /\ Applied
  /\ SingleModifierSource(mChanges[1])
  /\ mChanges[1].source.segments[1].modifiers[1] = Neg("velar")
  /\ InputPhonemes = <<"k", "a", "c">>
  /\ ReturnedPhonemes = <<"k">>

\* the first feature of the trait other than f
FirstOther(trait, f) ==
  TraitFeatures[trait][CHOOSE i \in 1..Len(TraitFeatures[trait]) :
                         /\ TraitFeatures[trait][i] # f
                         /\ \A j \in 1..(i - 1) : TraitFeatures[trait][j] = f]

\* the phoneme a modification returns for p once p's trait is set to f: the
\* first phoneme of p's class with p's features and f for the trait, or p
\* itself when the class has none
WithFeature(p, trait, f) ==
  LET class == ClassPhonemes[PhonemeClass[p]]
      hits == {q \in 1..Len(class) :
                 \A t \in DOMAIN PhonemeFeatures[p] :
                   featureOf(class[q], t) = IF t = trait THEN f ELSE PhonemeFeatures[p][t]}
  IN IF hits = {} THEN p ELSE class[CHOOSE q \in hits : \A r \in hits : q <= r]

\* the last Word.apply applied a modification with one modifier whose matches
\* do not overlap
ModifiedByOne ==
  /\ Applied
  /\ mChanges[1].target.kind = "modification"
  /\ Len(mChanges[1].target.mods) = 1
  /\ NonOverlapping(InputMatches)

\* the returned word has, at every matched position whose phoneme p has the
\* modifier's trait, p with the trait set to Wanted[p], and the input's phoneme
\* at every other position
ModifiedTo(Wanted) ==
  LET mod == mChanges[1].target.mods[1]
      trait == FeatureTrait(mod.feature)
  IN /\ Len(ReturnedPhonemes) = Len(InputPhonemes)
     /\ \A pos \in 1..Len(InputPhonemes) :
          LET p == InputPhonemes[pos]
          IN IF /\ \E r \in 1..Len(InputMatches) :
                     InputMatches[r].start < pos /\ pos <= InputMatches[r].end
                /\ trait \in DOMAIN PhonemeFeatures[p]
               THEN ReturnedPhonemes[pos] = WithFeature(p, trait, Wanted[p])
               ELSE ReturnedPhonemes[pos] = p

\* C20 as stated: a positive modifier m sets the trait to m.feature; a negative
\* one sets it to the first feature other than m.feature when the current
\* feature of p for the trait is the trait's default, and to the default
\* otherwise.
C20_NegativeByCurrentFeature ==
  ModifiedByOne =>
    LET mod == mChanges[1].target.mods[1]
        trait == FeatureTrait(mod.feature)
    IN ModifiedTo([p \in Glyphs |->
         IF mod.sign = "positive" THEN mod.feature
         ELSE IF featureOf(p, trait) = TraitDefault[trait]
           THEN FirstOther(trait, mod.feature)
           ELSE TraitDefault[trait]])

\* C20 amended: a positive modifier m sets the trait to m.feature; a negative
\* one sets it to the first feature other than m.feature when m.feature is the
\* trait's default, and to the trait's default otherwise, whatever the current
\* feature of p is.
C20_NegativeByModifierFeature ==
  ModifiedByOne =>
    LET mod == mChanges[1].target.mods[1]
        trait == FeatureTrait(mod.feature)
    IN ModifiedTo([p \in Glyphs |->
         IF mod.sign = "positive" THEN mod.feature
         ELSE IF mod.feature = TraitDefault[trait]
           THEN FirstOther(trait, mod.feature)
           ELSE TraitDefault[trait]])

\* [] > [-velar] on /kc/: velar is the default of place, k becomes the palatal c
\* and the palatal c, whose place is not the default, stays palatal
C20_Witness ==
  /\ ModifiedByOne
  /\ mChanges[1].target.mods[1] = Neg("velar")
  /\ InputPhonemes = <<"k", "c">>
  /\ ReturnedPhonemes = <<"c", "c">>

\* ------------------------------------------------------------------------
\* SpecSnap: a compiled module (two words, up to MaxChanges sound changes,
\* tagged in declaration order) and one call of Module.snapshot
\* ------------------------------------------------------------------------

SnapRules ==
  { Rule(Pattern(<<P("k")>>), PhonemesTarget(<<"c">>), NoEnvironment),
    Rule(Pattern(<<P("c")>>), PhonemesTarget(<<"g">>), NoEnvironment),
    Rule(Pattern(<<Cat("C", <<>>)>>), EmptyTarget, Env(<<>>, <<>>, FALSE, TRUE)) }

\* [C] > [+voiced]: k becomes g, and c has no voiced counterpart in C
VoicingRule == Rule(Pattern(<<Cat("C", <<>>)>>), Modification(<<Pos("voiced")>>), NoEnvironment)

\* the time windows a milestone can give the tag of a word
SnapWindows == {<<1, Infinity>>, <<2, Infinity>>, <<1, 2>>, <<2, 3>>}

SnapChangeWindows == {<<1, Infinity>>, <<2, Infinity>>}

\* the changes a module can declare: every rule in either window under ON, one
\* change declared under FA and the voicing rule
SnapChangeChoices ==
  [rule : SnapRules, window : SnapChangeWindows, language : {"ON"}]
    \cup [rule : {Rule(Pattern(<<P("k")>>), PhonemesTarget(<<"c">>), NoEnvironment)},
          window : {<<1, Infinity>>}, language : {"FA"}]
    \cup [rule : {VoicingRule}, window : {<<1, Infinity>>}, language : {"ON"}]

\* the times a snapshot is asked for
Times == {1, 2, 3}

\* the address of the target array of the i-th declared change (0: it has none)
targetAddress(cs, i, base) ==
  IF cs[i].rule.target.kind # "phonemes" THEN 0
  ELSE base + Cardinality({j \in 1..i : cs[j].rule.target.kind = "phonemes"})

\* the target arrays of the declared changes, in address order
RECURSIVE targetArrays(_, _)
targetArrays(cs, i) ==
  IF i > Len(cs) THEN <<>>
  ELSE (IF cs[i].rule.target.kind = "phonemes" THEN <<cs[i].rule.target.literal>> ELSE <<>>)
       \o targetArrays(cs, i + 1)

InitSnap ==
  \E lang \in LanguageIds, win \in SnapWindows, cs \in SeqsUpTo(SnapChangeChoices, MaxChanges) :
    /\ heap = [arrays |-> <<<<"a", "k">>, <<"k", "o">>>> \o targetArrays(cs, 1),
               words |-> << [gloss |-> "w1", phonemes |-> 1,
                             tag |-> Tag(win[1], win[2], lang, 0), etymology |-> <<>>],
                            [gloss |-> "w2", phonemes |-> 2,
                             tag |-> Tag(1, Infinity, "EI", 1), etymology |-> <<>>] >>,
               warnings |-> <<>>]
    /\ mWords = <<1, 2>>
    /\ mChanges = [i \in 1..Len(cs) |->
                     SoundChange(cs[i].rule, targetAddress(cs, i, 2),
                                 Tag(cs[i].window[1], cs[i].window[2], cs[i].language, i + 1),
                                 i)]
    /\ out = [op |-> "none"]
    /\ DriverIdle

\* module.snapshot(language, time)
Snapshot(language, time) ==
  /\ out.op = "none"
  /\ \E r \in {snapshot([heap EXCEPT !.warnings = <<>>], mWords, mChanges, language, time)} :
       /\ heap' = r.H
       /\ out' = r.snapshot
  /\ UNCHANGED <<mWords, mChanges, driverVars>>

NextSnap == \E language \in LanguageIds, time \in Times : Snapshot(language, time)

SpecSnap == InitSnap /\ [][NextSnap]_vars

\* --- what the last snapshot was given and what it returned ---

Snapshotted == out.op = "snapshot"

\* the glosses of the words of the snapshot
SnapshotGlosses == {heap.words[out.words[i]].gloss : i \in 1..Len(out.words)}

\* the language and its ancestors, following parent links
RECURSIVE Lineage(_)
Lineage(language) ==
  IF LanguageParent[language] = Null THEN {language}
  ELSE {language} \cup Lineage(LanguageParent[language])

\* C4: ancestor closure.  A snapshot of (L', t) holds a word with the gloss of a
\* word w of the module iff L' is w's language or descends from it, and
\* w.tag.start <= t <= w.tag.end.
C4_AncestorClosure ==
  Snapshotted =>
    \A i \in 1..Len(mWords) :
      LET w == heap.words[mWords[i]]
      IN (w.gloss \in SnapshotGlosses) <=>
           (/\ w.tag.language \in Lineage(out.language)
            /\ w.tag.start <= out.time
            /\ out.time <= w.tag.end)

\* a snapshot of IC holds the word w2 declared under its parent EI and leaves
\* out the word w1 declared under FA, of another branch, at a time in w1's window
C4_Witness ==
  /\ Snapshotted
  /\ out.language = "IC"
  /\ heap.words[1].tag.language = "FA"
  /\ heap.words[1].tag.start <= out.time /\ out.time <= heap.words[1].tag.end
  /\ SnapshotGlosses = {"w2"}

\* (a.start, a.index) precedes (b.start, b.index)
Precedes(a, b) ==
  \/ a.tag.start < b.tag.start
  \/ a.tag.start = b.tag.start /\ a.tag.index < b.tag.index

\* the changes of the set S in ascending order of (tag.start, tag.index)
RECURSIVE Ascending(_)
Ascending(S) ==
  IF S = {} THEN <<>>
  ELSE LET first == CHOOSE a \in S : \A b \in S \ {a} : Precedes(a, b)
       IN <<first>> \o Ascending(S \ {first})

\* the phonemes Word.apply returns for a word with these phonemes and this tag
AppliedTo(sc, tag, phonemes) ==
  LET H == [arrays |-> Append(heap.arrays, phonemes),
            words |-> <<[gloss |-> "w", phonemes |-> Len(heap.arrays) + 1, tag |-> tag,
                         etymology |-> <<>>]>>,
            warnings |-> <<>>]
      r == Word_apply(H, 1, sc)
  IN r.H.arrays[r.H.words[r.addr].phonemes]

\* the changes applied one after the other, each to the result of the previous
RECURSIVE Chained(_, _, _, _)
Chained(changes, i, tag, phonemes) ==
  IF i > Len(changes) THEN phonemes
  ELSE Chained(changes, i + 1, tag, AppliedTo(changes[i], tag, phonemes))

\* the addresses of the module's words that the snapshot selected
SelectedWords ==
  SelectSeq(mWords, LAMBDA w : heap.words[w].gloss \in SnapshotGlosses)

\* C5: snapshot.soundChanges is the module's changes with tag.start <= t in
\* ascending order of (tag.start, tag.index), and every word of the snapshot is
\* its module word with these changes applied in that order, each to the result
\* of the previous one.
C5_FoldInTagOrder ==
  Snapshotted =>
    LET due == {mChanges[i] : i \in {j \in 1..Len(mChanges) : mChanges[j].tag.start <= out.time}}
    IN /\ out.soundChanges = Ascending(due)
       /\ Len(out.words) = Len(SelectedWords)
       /\ \A i \in 1..Len(out.words) :
            LET w == heap.words[SelectedWords[i]]
            IN heap.arrays[heap.words[out.words[i]].phonemes]
                 = Chained(Ascending(due), 1, w.tag, heap.arrays[w.phonemes])

\* c > g was declared before k > c but starts later: the snapshot folds k > c
\* first and w1 = /ak/ comes out as /ag/
C5_Witness ==
  /\ Snapshotted
  /\ Len(mChanges) = 2
  /\ out.soundChanges = <<mChanges[2], mChanges[1]>>
  /\ \E i \in 1..Len(out.words) :
       /\ heap.words[out.words[i]].gloss = "w1"
       /\ heap.arrays[heap.words[out.words[i]].phonemes] = <<"a", "g">>

\* C6: Word.apply, applyTo and snapshot leave every phoneme array (the words'
\* and the targets') and every Word that existed before as they were, leave
\* module.words and module.soundChanges alone, and return for a word either
\* that very Word, unchanged, or a Word allocated by the call.
C6_InputsUntouched ==
  [][ /\ \A a \in 1..Len(heap.arrays) : heap'.arrays[a] = heap.arrays[a]
      /\ \A w \in 1..Len(heap.words) : heap'.words[w] = heap.words[w]
      /\ mWords' = mWords
      /\ mChanges' = mChanges
      /\ \A i \in 1..Len(out'.words) :
           \/ out'.words[i] > Len(heap.words)
           \/ /\ out'.words[i] \in {mWords[j] : j \in 1..Len(mWords)}
              /\ heap'.arrays[heap'.words[out'.words[i]].phonemes]
                   = heap.arrays[heap.words[out'.words[i]].phonemes] ]_vars

\* a snapshot changed both words of the module
C6_Witness ==
  /\ Snapshotted
  /\ Len(out.words) = 2
  /\ \A i \in 1..2 :
       /\ out.words[i] > 2
       /\ heap.arrays[heap.words[out.words[i]].phonemes] # heap.arrays[i]

RECURSIVE Sum(_)
Sum(numbers) == IF Len(numbers) = 0 THEN 0 ELSE numbers[1] + Sum(Tail(numbers))

\* the positions (from 1) of the phonemes that the change matches as source
\* and whose modified feature map no phoneme of their class has
Unresolved(sc, phonemes) ==
  {p \in 1..Len(phonemes) :
     /\ sc.target.kind = "modification"
     /\ \E r \in 1..Len(findMatchesIn(sc, phonemes)) :
          findMatchesIn(sc, phonemes)[r].start < p /\ p <= findMatchesIn(sc, phonemes)[r].end
     /\ \A q \in 1..Len(ClassPhonemes[PhonemeClass[phonemes[p]]]) :
          \E trait \in DOMAIN PhonemeFeatures[phonemes[p]] :
            featureOf(ClassPhonemes[PhonemeClass[phonemes[p]]][q], trait)
              # modifyFeatures(phonemes[p], sc.target.mods, 1, PhonemeFeatures[phonemes[p]])[trait]}

\* the phonemes of the Word at address w
PhonemesOf(w) == heap.arrays[heap.words[w].phonemes]

\* the Word that the k-th application of the etymology of the Word at w returned
ResultOf(w, k) ==
  IF k < Len(heap.words[w].etymology) THEN heap.words[w].etymology[k + 1][1] ELSE w

\* the warnings the applications behind the words of the snapshot owe to the
\* change defined at `site`
WarningsDue(site) ==
  Sum([i \in 1..Len(out.words) |->
        LET etymology == heap.words[out.words[i]].etymology
        IN Sum([k \in 1..Len(etymology) |->
                 IF etymology[k][2].definitionSite = site
                   THEN Cardinality(Unresolved(etymology[k][2], PhonemesOf(etymology[k][1])))
                   ELSE 0])])

\* the words of the module that (language, time) selects
SelectedBy(language, time) ==
  {i \in 1..Len(mWords) :
     /\ heap.words[mWords[i]].tag.language \in Lineage(language)
     /\ heap.words[mWords[i]].tag.start <= time
     /\ time <= heap.words[mWords[i]].tag.end}

\* C13: for every source phoneme p whose modified feature map no phoneme of
\* p's class has, the snapshot's warnings hold one warning with the
\* definitionSite of the change (and no warning else), p stays at its position
\* in the word the application returns, the snapshot has no error and it
\* returns a word for every selected word.
C13_WarnAndKeep ==
  Snapshotted =>
    /\ out.errors = <<>>
    /\ out.ok
    /\ Len(out.words) = Cardinality(SelectedBy(out.language, out.time))
    /\ \A site \in 1..Len(mChanges) :
         Cardinality({i \in 1..Len(out.warnings) : out.warnings[i] = site}) = WarningsDue(site)
    /\ \A i \in 1..Len(out.words) :
         \A k \in 1..Len(heap.words[out.words[i]].etymology) :
           LET entry == heap.words[out.words[i]].etymology[k]
           IN \A p \in Unresolved(entry[2], PhonemesOf(entry[1])) :
                /\ Len(PhonemesOf(ResultOf(out.words[i], k))) = Len(PhonemesOf(entry[1]))
                /\ PhonemesOf(ResultOf(out.words[i], k))[p] = PhonemesOf(entry[1])[p]

\* k > c and then [C] > [+voiced]: the c of /ac/ and of /co/ has no voiced
\* counterpart, the snapshot holds both words with their c and two warnings
C13_Witness ==
  /\ Snapshotted
  /\ Len(out.words) = 2
  /\ Len(out.warnings) = 2
  /\ \A i \in 1..2 : out.warnings[i] = 2
  /\ \E i \in 1..2 : PhonemesOf(out.words[i]) = <<"a", "c">>
  /\ \E i \in 1..2 : PhonemesOf(out.words[i]) = <<"c", "o">>

\* the phonemes of the module word at w after the first k changes of the fold
FoldPhonemes(changes, k, w) ==
  Chained(SubSeq(changes, 1, k), 1, heap.words[w].tag, PhonemesOf(w))

\* the positions in the fold of the changes that applied to the word at w: the
\* windows of change and word overlap and the change matches the word as the
\* changes before it left it
AppliedIn(changes, w) ==
  {k \in 1..Len(changes) :
     /\ changes[k].tag.start < heap.words[w].tag.end
     /\ heap.words[w].tag.start < changes[k].tag.end
     /\ Len(findMatchesIn(changes[k], FoldPhonemes(changes, k - 1, w))) > 0}

\* the positions in the fold of the changes that altered the word's phonemes
AlteredIn(changes, w) ==
  {k \in 1..Len(changes) : FoldPhonemes(changes, k, w) # FoldPhonemes(changes, k - 1, w)}

\* the j-th smallest member of a set of numbers
Nth(S, j) == CHOOSE k \in S : Cardinality({x \in S : x < k}) = j - 1

\* C18: every application in which the change applied returned a new word
\* whose etymology is the previous word's etymology with [previous word,
\* change] as its last entry; so after the fold a word's etymology lists, from
\* the module's word on, the changes that applied to it, in fold order: its
\* length is the number of changes that applied, which is at least the number
\* of changes that altered the phonemes.
C18_EtymologyChain ==
  Snapshotted =>
    /\ Len(out.words) = Len(SelectedWords)
    /\ \A i \in 1..Len(out.words) :
         LET e == heap.words[out.words[i]].etymology
             w == SelectedWords[i]
             applied == AppliedIn(out.soundChanges, w)
         IN /\ ResultOf(out.words[i], 0) = w
            /\ heap.words[w].etymology = <<>>
            /\ Len(e) = Cardinality(applied)
            /\ Len(e) >= Cardinality(AlteredIn(out.soundChanges, w))
            /\ \A k \in 1..Len(e) :
                 /\ e[k][2] = out.soundChanges[Nth(applied, k)]
                 /\ ResultOf(out.words[i], k) # e[k][1]
                 /\ heap.words[ResultOf(out.words[i], k)].etymology
                      = Append(heap.words[e[k][1]].etymology, <<e[k][1], e[k][2]>>)

\* k > c and then [C] > [+voiced] both applied to w1 = /ak/, the second without
\* altering /ac/: the etymology has two entries, from /ak/ and from /ac/
C18_Witness ==
  /\ Snapshotted
  /\ \E i \in 1..Len(out.words) :
       LET e == heap.words[out.words[i]].etymology
       IN /\ Len(e) = 2
          /\ e[1][1] = 1
          /\ PhonemesOf(e[1][1]) = <<"a", "k">>
          /\ PhonemesOf(e[2][1]) = <<"a", "c">>
          /\ PhonemesOf(out.words[i]) = <<"a", "c">>
          /\ Cardinality(AlteredIn(out.soundChanges, 1)) = 1

\* C28: in snapshot(L, t) a sound change whose tag language is neither L nor
\* an ancestor of L alters no word: every application of such a change in the
\* etymology of a word of the snapshot returned the phonemes it was given.
C28_OnlyLineageChangesAlter ==
  Snapshotted =>
    \A i \in 1..Len(out.words) :
      \A k \in 1..Len(heap.words[out.words[i]].etymology) :
        LET entry == heap.words[out.words[i]].etymology[k]
        IN entry[2].tag.language \notin Lineage(out.language) =>
             PhonemesOf(ResultOf(out.words[i], k)) = PhonemesOf(entry[1])

Sign(n) == IF n < 0 THEN -1 ELSE IF n > 0 THEN 1 ELSE 0

\* C10: sortByTag is the lexicographic comparator on (tag.start, tag.index):
\* negative when a precedes b, positive when it follows, zero only when both
\* components are equal, so that swapping the arguments flips the sign.
C10_Lexicographic ==
  \A i, j \in 1..Len(mChanges) :
    LET a == mChanges[i]
        b == mChanges[j]
    IN /\ Sign(sortByTag(a, b)) =
            (IF Precedes(a, b) THEN -1 ELSE IF Precedes(b, a) THEN 1 ELSE 0)
       /\ Sign(sortByTag(a, b)) = -Sign(sortByTag(b, a))

====
